---- MODULE Spec2Model ----
(***************************************************************************)
(* alf: the playback daemon (cmd/alf-play) and the index pipeline          *)
(* (cmd/alf-index).                                                        *)
(*                                                                         *)
(* Playback.  Every alf-play invocation is an operating-system process.    *)
(* A process takes one step per system call or per run of the external     *)
(* `mpc` client; steps of different processes interleave freely.  The      *)
(* shared state is the session directory /tmp/alf (pid, pos, file,         *)
(* autoplay) and the music player daemon that `mpc` talks to.              *)
(***************************************************************************)
EXTENDS Integers, Sequences, FiniteSets, TLC

\* ------------------------------------------------------------------ bounds

\* Number of alf-play invocations (play, stop, pause) in one behaviour, at
\* most.
MaxProcs == 4

\* Number of invocations in a behaviour of Spec.
SpecProcs == 3

\* Number of those invocations that may start a session (play, or pause
\* with a FILE argument).
MaxPlays == 2

\* The player reports its position in MaxPos steps of a track.
MaxPos == 1

\* ------------------------------------------------------------- playback data

Procs == 1..MaxProcs

NoPid == 0
NoFile == "-"
NoArg == ""
NoPos == -1

\* The FILE arguments tried with play: a path relative to the working
\* directory, /m.
PathArgs == {"b.wav"}

\* readlink -f resolves every component but the last, so it fails when a
\* parent directory is missing.
ReadlinkOk(path) == path # "x/c.wav"

ReadlinkOut(path) == IF path = "b.wav" THEN "/m/b.wav" ELSE path

\* absPath: the resolved path and whether readlink succeeded.
absPath(path) ==
    IF ReadlinkOk(path) THEN <<ReadlinkOut(path), TRUE>> ELSE <<path, FALSE>>

\* play: abs, err := absPath(filepath); if err != nil { abs = filepath }
PlayAbs(path) == IF absPath(path)[2] THEN absPath(path)[1] ELSE path

\* The files the player daemon can open.
Playable == {"/m/b.wav"}

VARIABLES
    proc,        \* proc[p]: process p, see Unborn below
    pidFile,     \* /tmp/alf/pid: NoPid when absent, else the pid it holds
    posFile,     \* /tmp/alf/pos: NoPos when absent, else the position it holds
    posBy,       \* the process that wrote /tmp/alf/pos, NoPid when absent
    fileFile,    \* /tmp/alf/file: NoFile when absent, else the path it holds
    autoplayFile,\* /tmp/alf/autoplay exists
    mpdState,    \* the player: "stop", "play" or "pause"
    mpdSongs,    \* number of songs in the player's queue
    mpdPos,      \* elapsed position of the current song, 0..MaxPos
    lfShown,     \* the browser, as last reloaded, highlights a position
    quiet,       \* a stop invoked on an Active session has returned and no
                 \* play has been invoked since the stop was
    plays,       \* invocations so far that may start a session
    limit,       \* number of alf-play invocations the behaviour may make
    mpv,         \* mpv[i]: the mpv process started by controller i
    mpvSocket,   \* the mpv process bound to /tmp/alf/mpv, NoPid when the
                 \* socket file is absent
    \* alf-index
    entries,     \* the entries of the directory
    force,       \* --force was given
    faulty,      \* external tools may fail in this run
    withSpark,   \* the build of alf-index has the Spark field (8 fields),
                 \* or has not (src/cmd/alf-index: 7 fields)
    before,      \* the cache file as the run found it
    files,       \* the audio files main has listed
    existing,    \* the map existing: existing[f] is the Meta of f, or NoMeta
    toIndex,     \* the selected files, in order
    mainPc,      \* where main is
    spawned,     \* how many workers the loop has started
    worker,      \* worker[f]: where the goroutine indexing f is
    sem,         \* number of tokens in the channel sem
    results,     \* the channel results: the Meta it holds
    closed,      \* results is closed
    wg,          \* the WaitGroup counter
    all,         \* main's slice `all`: the Meta to write back
    cache,       \* the cache file: the records it holds
    fault,       \* what has failed: "none", "readdir", "create" or "write"
    exitCode,    \* the exit status of alf-index, NoExit while it runs
    \* the cache codec
    metas,       \* the Meta given to writeCache
    lines,       \* the kinds of the lines of a cache file that was not
                 \* written by writeCache
    text,        \* the content of the cache file, character by character
    loaded,      \* the map readCache returns, as the set of its Meta
    codecPc,     \* "idle", "encode", "decode" or "done"
    \* the cache files of several directories
    store,       \* store[k]: the directories whose records the cache file
                 \* named k holds
    listed,      \* the last reading command: the directory it was run on
                 \* and the directories whose records it found
    \* the waveform renderer
    samples,     \* the decoded samples
    width,       \* the number of columns asked for
    peaks,       \* the result of makePeaks, NoPeaks before the call
    sparkIndex,  \* the sparkline of alf-index's miniSparkline, NoSpark before
    sparkList,   \* the sparkline of alf-list's miniSparkline
    sparkRender, \* the sparkline of aw's renderSparkline
    height,      \* the number of rows asked for
    posArg,      \* the playback position given with -p, in units of
                 \* 1/PosDen, NoPosArg when none is given
    plot,        \* what renderFull has written: the header and the rows, in
                 \* order, NoPlot before the call
    dirEntries,  \* the entries of the directory aw lists, in the order of
                 \* the directory
    termWidth,   \* the width given to renderDir
    listing,     \* what renderDir returns: its lines, NoListing before the
                 \* call, Panic when it never returns
    stored,      \* the sparkline the cache of the directory holds for the
                 \* file, <<>> when it holds none
    shown,       \* the sparkline a command has output for the file, NoSpark
                 \* before
    shownBy,     \* the command that has output it
    trackOut,    \* what aubiotrack gives for the file: whether it succeeded
                 \* and the lines of its output
    bpm          \* the BPM field detectBPM returns, as its characters,
                 \* NoBpm before the call

sessionFiles == <<pidFile, posFile, posBy, fileFile>>
mpdVars == <<mpdState, mpdSongs, mpdPos>>
mpvVars == <<mpv, mpvSocket>>
indexVars == <<entries, force, faulty, withSpark, before, files, existing, toIndex,
               mainPc, spawned, worker, sem, results, closed, wg, all, cache,
               fault, exitCode>>
libVars == <<metas, lines, text, loaded, codecPc, store, listed, samples,
             width, peaks, sparkIndex, sparkList, sparkRender, height, posArg,
             plot, dirEntries, termWidth, listing, stored, shown, shownBy,
             trackOut, bpm>>
playVars == <<proc, pidFile, posFile, posBy, fileFile, autoplayFile, mpdState,
              mpdSongs, mpdPos, lfShown, quiet, plays, limit, mpvVars>>

\* ---------------------------------------------------------------- processes

\* A process: pc is where it is, cmd is os.Args[1] ("play", "stop",
\* "pause", and "pause_d" in the daemonized child of pause), arg the FILE
\* argument, lastPos and pos the locals of play's loop, and active whether ActiveSession held when the command was invoked
\* (and, for pause, the player was still playing or paused at its first
\* query).
Unborn ==
    [pc |-> "idle", cmd |-> "none", arg |-> NoArg, lastPos |-> -1,
     pos |-> -1, active |-> FALSE]

\* The memory of a process that has exited or was killed is gone.
Gone == [Unborn EXCEPT !.pc = "gone"]

LoopPcs == {"lp_playing", "lp_paused", "lp_parse", "lp_write"}
MpvLoopPcs == {"v_alive", "v_query", "v_write"}

pc(p) == proc[p].pc

\* A process that exists: it was started and has neither exited nor been
\* killed.
Alive(p) == pc(p) \notin {"idle", "gone"}

\* A controller: a process executing play's monitoring loop.
InLoop(p) == pc(p) \in LoopPcs \cup MpvLoopPcs

Controllers == {p \in Procs : InLoop(p)}

\* The session is active: the player is playing or paused.
SessionActive == mpdState # "stop"

\* A session is Active and no command is in progress: the player is playing
\* or paused, there is a controller, and every process is a controller.
ActiveSession ==
    /\ SessionActive
    /\ Controllers # {}
    /\ \A q \in Procs : Alive(q) => InLoop(q)

\* Process b is the invocation made last.
Latest(b) == \A q \in Procs : q > b => pc(q) = "idle"

\* Process p moves to `label`.
Goto(p, label) == proc' = [proc EXCEPT ![p].pc = label]

\* Process p exits.
Exit(p) == proc' = [proc EXCEPT ![p] = Gone]

\* -------------------------------------------------------------------- alf-index

\* Number of audio files in the directory, at most.
MaxFiles == 5

\* Number of audio files in a run whose external tools may fail.
FewFiles == 2

\* The names: the audio files 1..MaxFiles, a subdirectory whose name ends in
\* .wav, a text file, and an audio file that was deleted after an earlier
\* run had indexed it.
SubDir == MaxFiles + 1
TextFile == MaxFiles + 2
Deleted == MaxFiles + 3
Names == 1..(MaxFiles + 3)

\* sem := make(chan struct{}, 4)
PoolSize == 4

\* The exit status of a process that has not exited.
NoExit == -1

audioExt ==
    {".wav", ".mp3", ".flac", ".ogg", ".aif", ".aiff", ".opus", ".m4a",
     ".wma", ".ape", ".wv", ".alac"}

\* e.IsDir()
IsDir(e) == e = SubDir

\* filepath.Ext(e.Name()): the extension as the name spells it.
Ext(e) ==
    IF e = SubDir THEN ".wav"
    ELSE IF e = TextFile THEN ".txt"
    ELSE CASE e % 4 = 1 -> ".wav"
           [] e % 4 = 2 -> ".WAV"
           [] e % 4 = 3 -> ".flac"
           [] OTHER -> ".Mp3"

\* strings.ToLower, on the extensions above.
ToLower(s) ==
    CASE s = ".WAV" -> ".wav"
      [] s = ".Mp3" -> ".mp3"
      [] OTHER -> s

\* main: !e.IsDir() && audioExt[strings.ToLower(filepath.Ext(e.Name()))]
IsAudio(e) == ~IsDir(e) /\ ToLower(Ext(e)) \in audioExt

\* The external tools indexFile runs: sox --i, aubiotrack, aubiopitch and the
\* sox decoder.
Tools == {"soxi", "aubiotrack", "aubiopitch", "sox"}

\* The lowest glyph of blocks, and a sparkline of `width` of them.
Lowest == "_"
Flat == "__________"

\* getSoxInfo: duration, channels, rate and bits of sox's report, all empty
\* when sox fails.
getSoxInfo(failed) ==
    IF "soxi" \in failed THEN <<"", "", "", "">>
    ELSE <<"00:00:10.07", "2", "48000", "24">>

\* detectBPM: "" when aubiotrack fails.
detectBPM(failed) == IF "aubiotrack" \in failed THEN "" ELSE "120"

\* detectPitch: "" when aubiopitch fails.
detectPitch(failed) == IF "aubiopitch" \in failed THEN "" ELSE "440"

\* miniSparkline: when the decoder fails or gives less than a sample,
\* strings.Repeat(string(blocks[0]), width); else the glyphs of the peaks.
miniSparkline(failed) == IF "sox" \in failed THEN Flat ELSE "_.:-=+*#%@"

\* indexFile: the Meta of a file, given the tools that fail on it.
indexFile(name, failed) ==
    [File |-> name, BPM |-> detectBPM(failed), Pitch |-> detectPitch(failed),
     Duration |-> getSoxInfo(failed)[1], Channels |-> getSoxInfo(failed)[2],
     Rate |-> getSoxInfo(failed)[3], Bits |-> getSoxInfo(failed)[4],
     Spark |-> miniSparkline(failed)]

\* The Meta an earlier run has left in the cache for a file.
OldMeta(name) ==
    [File |-> name, BPM |-> "90", Pitch |-> "220", Duration |-> "00:00:01.00",
     Channels |-> "1", Rate |-> "8000", Bits |-> "16", Spark |-> "#%@_.:-=+*"]

\* No entry of the map `existing`.
NoMeta ==
    [File |-> 0, BPM |-> "", Pitch |-> "", Duration |-> "", Channels |-> "",
     Rate |-> "", Bits |-> "", Spark |-> ""]

\* readCache, on a cache file of whole records: the map from name to Meta.
readCache(disk) ==
    [f \in Names |->
        IF \E i \in 1..Len(disk) : disk[i].File = f
        THEN disk[CHOOSE i \in 1..Len(disk) : disk[i].File = f]
        ELSE NoMeta]

\* readCache of the build without the Spark field: the first seven fields
\* of each record are taken and an eighth is ignored.
readCacheSeven(disk) ==
    [f \in Names |->
        IF readCache(disk)[f] = NoMeta THEN NoMeta
        ELSE [readCache(disk)[f] EXCEPT !.Spark = ""]]

\* indexFile of the build without the Spark field: no sparkline is made.
indexFileSeven(name, failed) == [indexFile(name, failed) EXCEPT !.Spark = ""]

\* readCache and indexFile of the build that runs.
ReadCacheOf(disk) == IF withSpark THEN readCache(disk) ELSE readCacheSeven(disk)
IndexFileOf(name, failed) ==
    IF withSpark THEN indexFile(name, failed) ELSE indexFileSeven(name, failed)

\* The files of `from`, a set of names, in directory order.
RECURSIVE InOrder(_, _)
InOrder(from, f) ==
    IF f > MaxFiles + 3 THEN <<>>
    ELSE IF f \in from THEN <<f>> \o InOrder(from, f + 1)
    ELSE InOrder(from, f + 1)

\* The cache file an earlier run has written: records for the files
\* 1..cached and for the file deleted since.
OldCache(cached) ==
    IF cached = 0 THEN <<>>
    ELSE [i \in 1..(cached + 1) |->
             IF i <= cached THEN OldMeta(i) ELSE OldMeta(Deleted)]

\* alf-index is started on a directory with the audio files 1..n, a
\* subdirectory and a text file; the cache file holds the records of an
\* earlier run (records of files that are gone among them); with or without
\* --force; `tools` tells whether external tools may fail.
IndexStartWith(n, cached, forced, tools, spark) ==
    /\ entries = (1..n) \cup {SubDir, TextFile}
    /\ force = forced
    /\ faulty = tools
    /\ withSpark = spark
    /\ cache = OldCache(cached)
    /\ before = cache
    /\ files = {}
    /\ existing = [f \in Names |-> NoMeta]
    /\ toIndex = <<>>
    /\ mainPc = "select"
    /\ spawned = 0
    /\ worker = [f \in Names |-> "none"]
    /\ sem = 0
    /\ results = <<>>
    /\ closed = FALSE
    /\ wg = 0
    /\ all = <<>>
    /\ fault = "none"
    /\ exitCode = NoExit

\* The same, for the build that has the Spark field.
IndexStart(n, cached, forced, tools) ==
    IndexStartWith(n, cached, forced, tools, TRUE)

\* How many files the cache has records for when a run starts: none, the
\* first, or all there can be.
Cached == {0, 1, MaxFiles}

\* What a run never changes: the directory, the flag, the tools, and the cache
\* file as it was found.
runVars == <<entries, force, faulty, withSpark, before>>

\* A selection that takes every file, --force or not.
SelectedAll(audio, known) == audio

\* main: the selection: every file with --force, else the files the cache has
\* no entry for.
Selected(audio, known) ==
    {f \in audio : force \/ known[f] = NoMeta}

\* main: os.ReadDir fails: exit 1.
IndexReadDirFails ==
    /\ mainPc = "select"
    /\ mainPc' = "done"
    /\ fault' = "readdir"
    /\ exitCode' = 1
    /\ UNCHANGED <<runVars, files, existing, toIndex, spawned, worker, sem,
                   results, closed, wg, all, cache, playVars, libVars>>

\* A main that goes on to the workers and the write-back with nothing
\* selected.
IndexSelectGoesOn ==
    /\ mainPc = "select"
    /\ files' = {e \in entries : IsAudio(e)}
    /\ existing' = ReadCacheOf(cache)
    /\ toIndex' = InOrder(Selected(files', existing'), 1)
    /\ mainPc' = "spawn"
    /\ UNCHANGED <<runVars, spawned, worker, sem, results, closed, wg, all,
                   cache, fault, exitCode, playVars, libVars>>

\* main: list the audio files, read the cache, select; main returns when
\* there is no audio file or nothing is selected.
IndexSelect ==
    /\ mainPc = "select"
    /\ files' = {e \in entries : IsAudio(e)}
    /\ existing' = IF files' = {} THEN existing ELSE ReadCacheOf(cache)
    /\ toIndex' = InOrder(Selected(files', existing'), 1)
    /\ mainPc' = IF toIndex' = <<>> THEN "done" ELSE "spawn"
    /\ exitCode' = IF toIndex' = <<>> THEN 0 ELSE exitCode
    /\ UNCHANGED <<runVars, spawned, worker, sem, results, closed, wg, all,
                   cache, fault, playVars, libVars>>

\* main: wg.Add(1) and `go func(n)` for the next selected file.
IndexSpawn ==
    /\ mainPc = "spawn"
    /\ spawned < Len(toIndex)
    /\ spawned' = spawned + 1
    /\ wg' = wg + 1
    /\ worker' = [worker EXCEPT ![toIndex[spawned + 1]] = "acquire"]
    /\ UNCHANGED <<runVars, files, existing, toIndex, mainPc, sem, results,
                   closed, all, cache, fault, exitCode, playVars, libVars>>

\* main: the loop is over; the goroutine that waits and closes is started and
\* main ranges over results.
IndexSpawnEnd ==
    /\ mainPc = "spawn"
    /\ spawned = Len(toIndex)
    /\ mainPc' = "collect"
    /\ UNCHANGED <<runVars, files, existing, toIndex, spawned, worker, sem,
                   results, closed, wg, all, cache, fault, exitCode,
                   playVars, libVars>>

\* A worker that starts indexFile without a token of sem.
WorkerAcquireUnbounded(f) ==
    /\ worker[f] = "acquire"
    /\ sem' = sem
    /\ worker' = [worker EXCEPT ![f] = "index"]
    /\ UNCHANGED <<runVars, files, existing, toIndex, mainPc, spawned,
                   results, closed, wg, all, cache, fault, exitCode,
                   playVars, libVars>>

\* worker: sem <- struct{}{} blocks while the channel is full; then indexFile
\* is called.
WorkerAcquire(f) ==
    /\ worker[f] = "acquire"
    /\ sem < PoolSize
    /\ sem' = sem + 1
    /\ worker' = [worker EXCEPT ![f] = "index"]
    /\ UNCHANGED <<runVars, files, existing, toIndex, mainPc, spawned,
                   results, closed, wg, all, cache, fault, exitCode,
                   playVars, libVars>>

\* The sets of tools that may fail on one file.
Failures == IF faulty THEN SUBSET Tools ELSE {{}}

\* worker: indexFile returns and its Meta is sent on results, which has room
\* for every selected file.
WorkerSend(f) ==
    /\ worker[f] = "index"
    /\ \E failed \in Failures :
          results' = Append(results, IndexFileOf(f, failed))
    /\ worker' = [worker EXCEPT ![f] = "release"]
    /\ UNCHANGED <<runVars, files, existing, toIndex, mainPc, spawned, sem,
                   closed, wg, all, cache, fault, exitCode, playVars, libVars>>

\* A worker that keeps its token of sem when it returns.
WorkerKeepsToken(f) ==
    /\ worker[f] = "release"
    /\ sem' = sem
    /\ worker' = [worker EXCEPT ![f] = "wgdone"]
    /\ UNCHANGED <<runVars, files, existing, toIndex, mainPc, spawned,
                   results, closed, wg, all, cache, fault, exitCode,
                   playVars, libVars>>

\* worker: the deferred <-sem
WorkerRelease(f) ==
    /\ worker[f] = "release"
    /\ sem' = sem - 1
    /\ worker' = [worker EXCEPT ![f] = "wgdone"]
    /\ UNCHANGED <<runVars, files, existing, toIndex, mainPc, spawned,
                   results, closed, wg, all, cache, fault, exitCode,
                   playVars, libVars>>

\* worker: the deferred wg.Done()
WorkerDone(f) ==
    /\ worker[f] = "wgdone"
    /\ wg' = wg - 1
    /\ worker' = [worker EXCEPT ![f] = "exit"]
    /\ UNCHANGED <<runVars, files, existing, toIndex, mainPc, spawned, sem,
                   results, closed, all, cache, fault, exitCode, playVars, libVars>>

\* The closing goroutine: wg.Wait() returns and results is closed.
CloseResults ==
    /\ mainPc = "collect"
    /\ ~closed
    /\ wg = 0
    /\ closed' = TRUE
    /\ UNCHANGED <<runVars, files, existing, toIndex, mainPc, spawned, worker,
                   sem, results, wg, all, cache, fault, exitCode, playVars, libVars>>

\* main: for m := range results { existing[m.File] = m }
Collect ==
    /\ mainPc = "collect"
    /\ results # <<>>
    /\ existing' = [existing EXCEPT ![Head(results).File] = Head(results)]
    /\ results' = Tail(results)
    /\ UNCHANGED <<runVars, files, toIndex, mainPc, spawned, worker, sem,
                   closed, wg, all, cache, fault, exitCode, playVars, libVars>>

\* A write-back of every entry of the map, deleted files included.
MergedStale ==
    LET order == InOrder({f \in Names : existing[f] # NoMeta}, 1)
    IN  [i \in 1..Len(order) |-> existing[order[i]]]

\* main: the Meta of the files of the directory that the map has, in
\* directory order.
Merged ==
    LET order == InOrder({f \in files : existing[f] # NoMeta}, 1)
    IN  [i \in 1..Len(order) |-> existing[order[i]]]

\* A range loop that ends as soon as results holds nothing.
RangeEndsEmpty == results = <<>>

\* main: `for m := range results` ends: results is closed and drained.
RangeEnds == results = <<>> /\ closed

\* main, writeCache: the slice `all` is built; os.MkdirAll and os.Create
\* succeed: the cache file is there and empty.
WriteCreate ==
    /\ mainPc = "collect"
    /\ RangeEnds
    /\ all' = Merged
    /\ cache' = <<>>
    /\ mainPc' = "write"
    /\ UNCHANGED <<runVars, files, existing, toIndex, spawned, worker, sem,
                   results, closed, wg, fault, exitCode, playVars, libVars>>

\* main, writeCache: os.Create fails (as it does when os.MkdirAll did):
\* writeCache returns the error and main exits 1.
WriteCreateFails ==
    /\ mainPc = "collect"
    /\ RangeEnds
    /\ all' = Merged
    /\ fault' = "create"
    /\ exitCode' = 1
    /\ mainPc' = "done"
    /\ UNCHANGED <<runVars, files, existing, toIndex, spawned, worker, sem,
                   results, closed, wg, cache, playVars, libVars>>

\* writeCache: w.Write fills the buffer of the csv writer, which writes what
\* it holds to the file: some more of the records are in the file.
WriteChunk ==
    /\ mainPc = "write"
    /\ \E k \in (Len(cache) + 1)..(Len(all) - 1) : cache' = SubSeq(all, 1, k)
    /\ UNCHANGED <<runVars, files, existing, toIndex, mainPc, spawned, worker,
                   sem, results, closed, wg, all, fault, exitCode, playVars, libVars>>

\* writeCache: w.Flush() writes the rest, writeCache returns nil, the file is
\* closed and main exits 0.
WriteFlush ==
    /\ mainPc = "write"
    /\ cache' = all
    /\ mainPc' = "done"
    /\ exitCode' = 0
    /\ UNCHANGED <<runVars, files, existing, toIndex, spawned, worker, sem,
                   results, closed, wg, all, fault, playVars, libVars>>

\* writeCache: a write to the file fails (the disk is full).  The results of
\* w.Write are dropped and w.Error() is not asked for after w.Flush():
\* writeCache returns nil and main exits 0.
WriteFails ==
    /\ mainPc = "write"
    /\ fault' = "write"
    /\ mainPc' = "done"
    /\ exitCode' = 0
    /\ UNCHANGED <<runVars, files, existing, toIndex, spawned, worker, sem,
                   results, closed, wg, all, cache, playVars, libVars>>

\* The process is interrupted by a signal: main and its goroutines are gone
\* with their memory; the files stay as they are.
Interrupt ==
    /\ mainPc \notin {"done", "killed"}
    /\ mainPc' = "killed"
    /\ files' = {}
    /\ existing' = [f \in Names |-> NoMeta]
    /\ toIndex' = <<>>
    /\ spawned' = 0
    /\ worker' = [f \in Names |-> "none"]
    /\ sem' = 0
    /\ results' = <<>>
    /\ closed' = FALSE
    /\ wg' = 0
    /\ UNCHANGED <<runVars, all, cache, fault, exitCode, playVars, libVars>>

\* indexFile calls in progress.
Indexing == {f \in Names : worker[f] = "index"}

\* ------------------------------------------------------------ the cache codec

codecVars == <<metas, lines, text, loaded, codecPc>>
pathVars == <<store, listed>>
peakVars == <<samples, width, peaks>>
sparkVars == <<sparkIndex, sparkList, sparkRender>>
plotVars == <<height, posArg, plot>>
dirVars == <<dirEntries, termWidth, listing>>
reuseVars == <<stored, shown, shownBy>>
drawVars == <<plotVars, dirVars, reuseVars>>
tempoVars == <<trackOut, bpm>>

\* Number of Meta given to writeCache, at most.
MaxRecords == 2

\* Number of lines of a cache file that writeCache has not written, at most.
MaxLines == 3

\* readCache: a record needs 7 fields, and has a sparkline when it has 8.
MinFields == 7
SparkField == 8

\* The characters of a cache file: the separator, the line end, the double
\* quote, the space and ordinary characters.
Tab == "TAB"
Nl == "NL"
Quote == "QUOTE"
Space == "SPACE"

\* A writer that never quotes a field.
fieldNeverQuoted(field) == FALSE

\* csv.Writer.fieldNeedsQuotes: a field that holds the separator, a quote or
\* a line end, or that begins with a space.
fieldNeedsQuotes(field) ==
    /\ field # <<>>
    /\ \/ \E i \in 1..Len(field) : field[i] \in {Tab, Quote, Nl}
       \/ field[1] = Space

\* csv.Writer.Write, a quoted field: every quote is written twice.
RECURSIVE DoubleQuotes(_)
DoubleQuotes(field) ==
    IF field = <<>> THEN <<>>
    ELSE (IF Head(field) = Quote THEN <<Quote, Quote>> ELSE <<Head(field)>>)
         \o DoubleQuotes(Tail(field))

\* csv.Writer.Write, one field.
writeField(field) ==
    IF fieldNeedsQuotes(field)
    THEN <<Quote>> \o DoubleQuotes(field) \o <<Quote>>
    ELSE field

\* csv.Writer.Write: the fields, separated by w.Comma, and a line end.
RECURSIVE Write(_)
Write(record) ==
    IF Len(record) = 1 THEN writeField(record[1]) \o <<Nl>>
    ELSE writeField(Head(record)) \o <<Tab>> \o Write(Tail(record))

\* writeCache: the fields of a Meta, in the order of the line.
MetaFields(m) ==
    <<m.File, m.BPM, m.Pitch, m.Duration, m.Channels, m.Rate, m.Bits, m.Spark>>

\* writeCache: one line per Meta.
RECURSIVE writeCacheText(_)
writeCacheText(ms) ==
    IF ms = <<>> THEN <<>>
    ELSE Write(MetaFields(Head(ms))) \o writeCacheText(Tail(ms))

\* csv.Reader.ReadAll has met an error: it returns no record.
Failed == [err |-> TRUE, records |-> <<>>]

\* csv.Reader.readRecord has met an error in a field.
BadField == [ok |-> FALSE, field |-> <<>>, end |-> "eof", rest |-> <<>>]

\* csv.Reader.readRecord, one field, character by character.  mode is
\* "start" at the start of the field, "plain" in an unquoted field, "quoted"
\* in a quoted one and "closing" after a quote in a quoted one.  The field
\* ends with the separator, the line end or the end of the file; a quote in
\* an unquoted field, a character after the closing quote and the end of the
\* file in a quoted field are errors.
RECURSIVE ReadField(_, _, _)
ReadField(txt, mode, field) ==
    IF txt = <<>>
    THEN IF mode = "quoted" THEN BadField
         ELSE [ok |-> TRUE, field |-> field, end |-> "eof", rest |-> <<>>]
    ELSE LET c == Head(txt)
             rest == Tail(txt)
             EndField ==
                 [ok |-> TRUE, field |-> field,
                  end |-> IF c = Tab THEN "tab" ELSE "nl", rest |-> rest]
         IN  CASE mode = "start" ->
                    IF c = Quote THEN ReadField(rest, "quoted", <<>>)
                    ELSE IF c \in {Tab, Nl} THEN EndField
                    ELSE ReadField(rest, "plain", <<c>>)
               [] mode = "plain" ->
                    IF c \in {Tab, Nl} THEN EndField
                    ELSE IF c = Quote THEN BadField
                    ELSE ReadField(rest, "plain", Append(field, c))
               [] mode = "quoted" ->
                    IF c = Quote THEN ReadField(rest, "closing", field)
                    ELSE ReadField(rest, "quoted", Append(field, c))
               [] OTHER ->
                    IF c = Quote
                    THEN ReadField(rest, "quoted", Append(field, Quote))
                    ELSE IF c \in {Tab, Nl} THEN EndField
                    ELSE BadField

\* csv.Reader.readRecord: the fields up to the end of the line.
RECURSIVE readRecord(_, _)
readRecord(txt, record) ==
    LET f == ReadField(txt, "start", <<>>)
    IN  IF ~f.ok THEN [ok |-> FALSE, record |-> <<>>, rest |-> <<>>]
        ELSE IF f.end = "tab" THEN readRecord(f.rest, Append(record, f.field))
        ELSE [ok |-> TRUE, record |-> Append(record, f.field), rest |-> f.rest]

\* csv.Reader.ReadAll: record after record.  `expected` is
\* r.FieldsPerRecord, 0 until the first record has set it: a record whose
\* number of fields is not that of the first record is an error.  An empty
\* line is skipped.
RECURSIVE ReadRecords(_, _, _)
ReadRecords(txt, records, expected) ==
    IF txt = <<>> THEN [err |-> FALSE, records |-> records]
    ELSE IF Head(txt) = Nl THEN ReadRecords(Tail(txt), records, expected)
    ELSE LET r == readRecord(txt, <<>>)
         IN  IF ~r.ok THEN Failed
             ELSE IF expected # 0 /\ Len(r.record) # expected THEN Failed
             ELSE ReadRecords(r.rest, Append(records, r.record), Len(r.record))

\* readCache: records, _ := r.ReadAll(): the records, none after an error.
ReadAll(txt) == ReadRecords(txt, <<>>, 0).records

\* readCache: the Meta of a record of at least 7 fields.
MetaOf(rec) ==
    [File |-> rec[1], BPM |-> rec[2], Pitch |-> rec[3], Duration |-> rec[4],
     Channels |-> rec[5], Rate |-> rec[6], Bits |-> rec[7],
     Spark |-> IF Len(rec) >= SparkField THEN rec[SparkField] ELSE <<>>]

\* readCache: cache[rec[0]] = m for every record with len(rec) >= 7.
RECURSIVE LoadRecords(_, _)
LoadRecords(records, map) ==
    IF records = <<>> THEN map
    ELSE LoadRecords(Tail(records),
                     IF Len(Head(records)) >= MinFields
                     THEN {m \in map : m.File # Head(records)[1]}
                          \cup {MetaOf(Head(records))}
                     ELSE map)

\* readCache, on the text of the cache file.
readCacheText(txt) == LoadRecords(ReadAll(txt), {})

\* File names and field values without separator and line end: empty, "0",
\* with a quote, with a leading space.
NameVals == {<<"k">>, <<Space, "k">>, <<"k", Quote, "k">>}
FieldVals == {<<>>, <<"0">>, <<Quote>>, <<Space, "0">>}

\* A Meta with the name and two values spread over its fields.
MetaWith(name, v, w) ==
    [File |-> name, BPM |-> v, Pitch |-> w, Duration |-> w, Channels |-> v,
     Rate |-> <<>>, Bits |-> v, Spark |-> w]

MetaVals == {MetaWith(name, v, w) : name \in NameVals, v, w \in FieldVals}

\* The sequences of at most MaxRecords Meta with names that differ.
MetaSeqs ==
    {ms \in UNION {[1..k -> MetaVals] : k \in 0..MaxRecords} :
        \A i, j \in 1..Len(ms) : i # j => ms[i].File # ms[j].File}

\* The name on line i of a cache file that was not written by writeCache.
LineName(i) == [k \in 1..i |-> "k"]

\* Line i of such a file: a line cut short, a line of a version without
\* sparkline, or a line with a sparkline.
LineFields(kind, i) ==
    CASE kind = "short" -> <<LineName(i), <<"1">>, <<"2">>>>
      [] kind = "legacy" ->
            <<LineName(i), <<"1">>, <<"2">>, <<"3">>, <<"4">>, <<"5">>, <<"6">>>>
      [] OTHER ->
            <<LineName(i), <<"1">>, <<"2">>, <<"3">>, <<"4">>, <<"5">>, <<"6">>,
              <<"#">>>>

LineKinds == {"short", "legacy", "full"}
LineSeqs == UNION {[1..k -> LineKinds] : k \in 1..MaxLines}

\* The text of the file with these lines.
RECURSIVE LinesText(_, _)
LinesText(kinds, i) ==
    IF i > Len(kinds) THEN <<>>
    ELSE Write(LineFields(kinds[i], i)) \o LinesText(kinds, i + 1)

CodecIdle ==
    /\ metas = <<>>
    /\ lines = <<>>
    /\ text = <<>>
    /\ loaded = {}
    /\ codecPc = "idle"

\* Either Meta are given to writeCache, or a cache file is there to read.
CodecStart ==
    /\ loaded = {}
    /\ \/ /\ metas \in MetaSeqs
          /\ lines = <<>>
          /\ text = <<>>
          /\ codecPc = "encode"
       \/ /\ metas = <<>>
          /\ lines \in LineSeqs
          /\ text = LinesText(lines, 1)
          /\ codecPc = "decode"

\* writeCache(dirpath, metas)
CodecWrite ==
    /\ codecPc = "encode"
    /\ text' = writeCacheText(metas)
    /\ codecPc' = "decode"
    /\ UNCHANGED <<metas, lines, loaded, pathVars, peakVars, sparkVars, drawVars, tempoVars,
                   playVars,
                   indexVars>>

\* readCache(dirpath)
CodecRead ==
    /\ codecPc = "decode"
    /\ loaded' = readCacheText(text)
    /\ codecPc' = "done"
    /\ UNCHANGED <<metas, lines, text, pathVars, peakVars, sparkVars, drawVars, tempoVars,
                   playVars,
                   indexVars>>

\* ------------------------------------------------ cache files of directories

\* Two directories with audio files, one of which has the same name in both.
Dirs == {"/m/s", "/n/s"}
DirFiles(dir) == IF dir = "/m/s" THEN {"kick", "snare"} ELSE {"kick", "hat"}

\* Working directories and directory arguments of the commands.
Cwds == {"/m", "/n", "/m/s"}
DirArgs == {"s", ".", "/m/s", "/m/s/", "/n/s"}

\* The directory an argument names in a working directory, "none" when
\* there is no such directory.
Resolve(cwd, arg) ==
    CASE arg \in {"/m/s", "/m/s/"} -> "/m/s"
      [] arg = "/n/s" -> "/n/s"
      [] arg = "s" /\ cwd = "/m" -> "/m/s"
      [] arg = "s" /\ cwd = "/n" -> "/n/s"
      [] arg = "." /\ cwd = "/m/s" -> "/m/s"
      [] OTHER -> "none"

\* filepath.Abs: the argument joined to the working directory unless it is
\* absolute, and cleaned.  There is no symbolic link here, so that is the
\* path of the directory.
Abs(cwd, arg) ==
    CASE arg = "/m/s/" -> "/m/s"
      [] arg \in {"/m/s", "/n/s"} -> arg
      [] arg = "." -> cwd
      [] OTHER -> IF cwd = "/m" THEN "/m/s" ELSE IF cwd = "/n" THEN "/n/s"
                  ELSE "/m/s/s"

\* cacheFile: the name is the digest of the string it is given: the same
\* for the same string, another for another string.
cacheFile(dirpath) == <<"alf", dirpath, ".tsv">>

CacheFiles == {cacheFile(x) : x \in DirArgs \cup Dirs}

\* A record of a cache file: a name, with the Meta of the file of that name
\* of a directory.
RecordOf(dir, name) == [dir |-> dir, name |-> name]

NotListed == [dir |-> "none", found |-> {}]

PathIdle ==
    /\ store = [k \in CacheFiles |-> {}]
    /\ listed = NotListed

\* alf-index: the records written back by main for a directory, given the
\* records of the cache file it has read: those computed now for the selected
\* names, and the cached ones for the other names of the directory.
IndexedRecords(dir, cached, forced) ==
    LET selected ==
            {n \in DirFiles(dir) : forced \/ \A r \in cached : r.name # n}
    IN  IF selected = {} THEN cached
        ELSE {RecordOf(dir, n) : n \in selected}
             \cup {r \in cached : r.name \in DirFiles(dir) \ selected}

\* alf-index ARG, in a working directory: dirpath := os.Args[1] is read with
\* os.ReadDir and given, as it is, to readCache and writeCache.
PathIndex(cwd, arg, forced) ==
    /\ Resolve(cwd, arg) # "none"
    /\ store' = [store EXCEPT ![cacheFile(arg)] =
                    IndexedRecords(Resolve(cwd, arg), @, forced)]
    /\ UNCHANGED <<listed, codecVars, peakVars, sparkVars, drawVars, tempoVars,
                   playVars,
                   indexVars>>

\* alf-list ARG: abs, err := filepath.Abs(dirpath); readCache(abs)
PathList(cwd, arg) ==
    /\ Resolve(cwd, arg) # "none"
    /\ listed' = [dir |-> Resolve(cwd, arg),
                  found |-> store[cacheFile(Abs(cwd, arg))]]
    /\ UNCHANGED <<store, codecVars, peakVars, sparkVars, drawVars, tempoVars,
                   playVars,
                   indexVars>>

\* aw ARG, on a directory: renderDir(path) calls readDirCache(dirpath) with
\* the argument as it is.
PathRender(cwd, arg) ==
    /\ Resolve(cwd, arg) # "none"
    /\ listed' = [dir |-> Resolve(cwd, arg), found |-> store[cacheFile(arg)]]
    /\ UNCHANGED <<store, codecVars, peakVars, sparkVars, drawVars, tempoVars,
                   playVars,
                   indexVars>>

\* ------------------------------------------------------------ peak bucketing

\* Number of samples and of columns, at most.
MaxSamples == 3
MaxWidth == 5

\* Samples, of 16 bits.
SampleVals == {-32768, -7, -2, 0, 1, 3}
SampleSeqs == UNION {[1..n -> SampleVals] : n \in 0..MaxSamples}

NoPeaks == <<-1>>

\* v = -v on an int16: the lowest value is its own negation.
Neg16(v) == IF v = -32768 THEN -32768 ELSE -v

\* A bucket end that is a multiple of the truncated bucket size.
BucketEndEven(i, n, w) == (i + 1) * (n \div w)

\* s := i * n / width and e := (i + 1) * n / width, for column i from 0.
BucketStart(i, n, w) == (i * n) \div w
BucketEnd(i, n, w) == ((i + 1) * n) \div w

\* for _, v := range samples[s:e]: the greatest magnitude, from mx on.
RECURSIVE MaxOver(_, _, _, _)
MaxOver(smp, s, e, mx) ==
    IF s >= e THEN mx
    ELSE LET v == IF smp[s + 1] < 0 THEN Neg16(smp[s + 1]) ELSE smp[s + 1]
         IN  MaxOver(smp, s + 1, e, IF v > mx THEN v ELSE mx)

\* makePeaks: nil for no sample, else one peak per column.
makePeaks(smp, w) ==
    IF Len(smp) = 0 THEN <<>>
    ELSE [i \in 1..w |->
             MaxOver(smp, BucketStart(i - 1, Len(smp), w),
                     BucketEnd(i - 1, Len(smp), w), 0)]

PeakIdle ==
    /\ samples = <<>>
    /\ width = 0
    /\ peaks = NoPeaks

PeakStart ==
    /\ samples \in SampleSeqs
    /\ width \in 1..MaxWidth
    /\ peaks = NoPeaks

\* peaks := makePeaks(samples, width)
MakePeaks ==
    /\ peaks = NoPeaks
    /\ width > 0
    /\ peaks' = makePeaks(samples, width)
    /\ UNCHANGED <<samples, width, codecVars, pathVars, sparkVars, drawVars, tempoVars,
                   playVars,
                   indexVars>>

\* ------------------------------------------------------ float64 arithmetic

\* float64 has a significand of 53 bits: the unit in the last place of a
\* value in [2^e, 2^(e+1)) is 2^(e - Fraction).
Fraction == 52

\* 2^n modulo m, for n >= 0 and 0 < m < 2^15.
RECURSIVE ModPow2(_, _)
ModPow2(n, m) ==
    IF n = 0 THEN 1 % m
    ELSE LET h == ModPow2(n \div 2, m)
         IN  (((h * h) % m) * (IF n % 2 = 1 THEN 2 ELSE 1)) % m

\* The j for which p / q is in [2^-j, 2^(1-j)), for 0 < p <= q < 2^15.
Shift(p, q) ==
    CHOOSE j \in 0..15 : p * 2^j >= q /\ (j = 0 \/ p * 2^(j - 1) < q)

\* The e for which k is in [2^e, 2^(e+1)), for 0 < k < 2^15.
Log2(k) == CHOOSE e \in 0..15 : 2^e <= k /\ k < 2^(e + 1)

\* float64(p) / float64(q), rounded to nearest: the result is
\* p/q + d/q * 2^(-Shift(p, q) - Fraction), where -q/2 < d <= q/2 is this
\* number: minus the remainder of the significand when the quotient is
\* rounded down, q minus the remainder when it is rounded up.
DivError(p, q) ==
    LET rem == (p * ModPow2(Fraction + Shift(p, q), q)) % q
    IN  IF 2 * rem < q THEN 0 - rem ELSE q - rem

\* The float64 value float64(p) / float64(q) * float64(h), compared with
\* the integer k: -1 when it is less, 0 when equal, 1 when greater;
\* 0 <= p <= q, h > 0, k >= 0.  The value differs from p*h/q by less than
\* 2^-40; when p*h/q is k itself, the product of the rounded quotient by h
\* is k + DivError * h / q * 2^(-Shift - Fraction) and is rounded to k
\* unless it is beyond half the distance to the next float64, which is
\* 2^(Log2(k) - Fraction) above k, and as much below k or half of it when k
\* is a power of 2.
Float64Cmp(p, q, h, k) ==
    IF p * h < k * q THEN -1
    ELSE IF p * h > k * q THEN 1
    ELSE IF k = 0 THEN 0
    ELSE LET d == DivError(p, q)
             half == q * 2^(Log2(k) + Shift(p, q))
         IN  IF d > 0 /\ 2 * d * h > half THEN 1
             ELSE IF d < 0 /\ (IF 2^Log2(k) = k THEN 4 ELSE 2) * (0 - d) * h > half
             THEN -1
             ELSE 0

\* int(float64(p) / float64(q) * float64(h)), for 0 <= p <= q and h > 0.
Float64Int(p, q, h) ==
    CHOOSE k \in 0..h :
        Float64Cmp(p, q, h, k) >= 0 /\ Float64Cmp(p, q, h, k + 1) < 0

\* ---------------------------------------------------------------- sparklines

\* len(blocks): the glyphs of the ramp, from the lowest, 0, to the full
\* block, 7.
Levels == 8

NoSpark == <<-1>>

\* var maxP int16; for _, p := range peaks ...; if maxP == 0 { maxP = 1 }
MaxPeak(pk) ==
    LET tops == {pk[i] : i \in 1..Len(pk)} \cup {0}
        maxP == CHOOSE m \in tops : \A x \in tops : x <= m
    IN  IF maxP = 0 THEN 1 ELSE maxP

\* lvl := float64(p) / float64(maxP); blocks[int(lvl * float64(len(blocks)-1))]
Glyphs(pk) ==
    LET maxP == MaxPeak(pk)
    IN  [i \in 1..Len(pk) |-> Float64Int(pk[i], maxP, Levels - 1)]

\* The peak loop of miniSparkline: peaks := make([]int16, width) and one peak
\* per column.
miniPeaks(smp, w) ==
    [i \in 1..w |->
        MaxOver(smp, BucketStart(i - 1, Len(smp), w),
                BucketEnd(i - 1, Len(smp), w), 0)]

\* alf-index, miniSparkline(path, width): the lowest glyph, width times, when
\* the decoder fails or gives less than a sample.
indexSparkline(smp, w) ==
    IF Len(smp) = 0 THEN [i \in 1..w |-> 0] ELSE Glyphs(miniPeaks(smp, w))

\* alf-list, miniSparkline(path, width)
listSparkline(smp, w) ==
    IF Len(smp) = 0 THEN [i \in 1..w |-> 0] ELSE Glyphs(miniPeaks(smp, w))

\* A renderer that rounds the level to the nearest glyph.
renderSparklineRounded(smp, w) ==
    IF Len(smp) = 0 THEN [i \in 1..w |-> 0]
    ELSE LET pk == makePeaks(smp, w)
         IN  [i \in 1..w |->
                 (2 * (Levels - 1) * pk[i] + MaxPeak(pk))
                     \div (2 * MaxPeak(pk))]

\* aw, renderSparkline(path, width): strings.Repeat("▁", width) when decode
\* returns nil, else the glyphs of makePeaks(samples, width).
renderSparkline(smp, w) ==
    IF Len(smp) = 0 THEN [i \in 1..w |-> 0] ELSE Glyphs(makePeaks(smp, w))

SparkIdle ==
    /\ sparkIndex = NoSpark
    /\ sparkList = NoSpark
    /\ sparkRender = NoSpark

\* alf-index: spark := miniSparkline(path, 10), at any width.
IndexSparkline ==
    /\ sparkIndex = NoSpark
    /\ width > 0
    /\ sparkIndex' = indexSparkline(samples, width)
    /\ UNCHANGED <<sparkList, sparkRender, peakVars, drawVars, tempoVars, codecVars,
                   pathVars, playVars, indexVars>>

\* alf-list: spark = miniSparkline(fpath, *sparkW)
ListSparkline ==
    /\ sparkList = NoSpark
    /\ width > 0
    /\ sparkList' = listSparkline(samples, width)
    /\ UNCHANGED <<sparkIndex, sparkRender, peakVars, drawVars, tempoVars, codecVars,
                   pathVars, playVars, indexVars>>

\* aw -1: spark, meta, dur := renderSparkline(path, *width)
RenderSparkline ==
    /\ sparkRender = NoSpark
    /\ width > 0
    /\ sparkRender' = renderSparkline(samples, width)
    /\ UNCHANGED <<sparkIndex, sparkList, peakVars, drawVars, tempoVars, codecVars,
                   pathVars, playVars, indexVars>>

\* ------------------------------------------------------------ the full plot

\* Number of rows asked for, at most.
MaxHeight == 35

\* Number of columns of a wide plot.
PlotWidth == 50

\* alf-play writes the position with fmt.Sprintf("%.4f", pos): a number of
\* ten-thousandths.
PosDen == 10000

\* flag.Float64("p", -1, ...): no position given.
NoPosArg == -1

NoPlot == <<"none">>

\* The emphasis markers.
DIM == "ESC[38;5;240m"
BRIGHT == "ESC[0m"
RST == "ESC[0m"

\* Samples, widths and positions of a plot.
PlotVals == {0, 1, 29, 35}
PlotSeqs == UNION {[1..n -> PlotVals] : n \in 0..2}
PlotWidths == {1, 2, PlotWidth}
PosArgs == {NoPosArg, 0, 5800, PosDen}

\* renderFull, one cell of the row `row`: level := float64(p) / float64(mx) *
\* float64(height); the full block when level >= row+1, a glyph of the ramp,
\* blocks[int((level - row) * 7)], when level > row, the lowest glyph in row
\* 0 and a space elsewhere.
Cell(p, mx, h, row) ==
    IF Float64Cmp(p, mx, h, row + 1) >= 0 THEN "full"
    ELSE IF Float64Cmp(p, mx, h, row) > 0 THEN "ramp"
    ELSE IF row = 0 THEN "base"
    ELSE "blank"

\* renderFull: chars, the cells of a row.
Chars(pk, mx, h, row) == [i \in 1..Len(pk) |-> Cell(pk[i], mx, h, row)]

\* renderFull: split := -1, and int(pos * float64(width)) when pos >= 0.
Split(position, w) ==
    IF position >= 0 THEN Float64Int(position, PosDen, w) ELSE -1

\* renderFull: a row as it is written, with the emphasis markers around the
\* columns before the split and the columns from it on.
Emphasis(chars, split, w) ==
    IF split >= 0 /\ split < w
    THEN <<DIM>> \o SubSeq(chars, 1, split) \o <<BRIGHT>>
             \o SubSeq(chars, split + 1, w) \o <<RST>>
    ELSE IF split >= w THEN <<DIM>> \o chars \o <<RST>>
    ELSE chars

\* renderFull: the header line, with the position in it when one is given.
Header(position) ==
    <<IF position >= 0 THEN "name info [cur / dur] tags"
      ELSE "name info [dur] tags", Nl>>

\* renderFull(path, width, height, pos): "  [no audio data]" when decode
\* returns nil, else the header and the rows from height-1 down to 0, each
\* but the last followed by a line end.
renderFull(smp, w, h, position) ==
    IF Len(smp) = 0 THEN <<<<"  [no audio data]">>>>
    ELSE LET pk == makePeaks(smp, w)
             mx == MaxPeak(pk)
             split == Split(position, w)
         IN  <<Header(position)>> \o
             [r \in 1..h |->
                 Emphasis(Chars(pk, mx, h, h - r), split, w)
                     \o (IF h - r > 0 THEN <<Nl>> ELSE <<>>)]

PlotIdle ==
    /\ height = 0
    /\ posArg = NoPosArg
    /\ plot = NoPlot


PlotStart ==
    /\ samples \in PlotSeqs
    /\ width \in PlotWidths
    /\ peaks = NoPeaks
    /\ height \in 1..MaxHeight
    /\ posArg \in PosArgs
    /\ plot = NoPlot

\* aw: fmt.Println(renderFull(path, *width, *height, *pos))
RenderFull ==
    /\ plot = NoPlot
    /\ height > 0
    /\ plot' = renderFull(samples, width, height, posArg)
    /\ UNCHANGED <<height, posArg, peakVars, sparkVars, dirVars, reuseVars, tempoVars,
                   codecVars, pathVars, playVars, indexVars>>

\* ------------------------------------------------------ the directory listing

\* Number of entries of the directory, at most.
MaxListed == 58

\* renderDir(path, *width, 50): maxfiles.
MaxFilesShown == 50

\* sparkW := width - 40, at least 16 and at most 30; the columns that are
\* neither name nor sparkline.
SparkOff == 40
SparkMin == 16
SparkMax == 30
OtherCols == 16

NoListing == <<[text |-> "none"]>>
Panic == <<[text |-> "panic: slice bounds out of range"]>>

\* The bytes of file names: B, a, b, x, and the space of the padding.
NameBytes == <<66, 97, 98>>
ByteX == 120
ByteSpace == 32

\* The name of entry k of the directory: four bytes that differ from one
\* entry to the other, and up to two more.
EntryName(k) ==
    LET c == (k * 7) % 81
    IN  <<NameBytes[(c % 3) + 1], NameBytes[((c \div 3) % 3) + 1],
          NameBytes[((c \div 9) % 3) + 1], NameBytes[((c \div 27) % 3) + 1]>>
        \o [j \in 1..(k % 3) |-> ByteX]

\* Entry k of the directory: every tenth is not an audio file.
Entry(k) ==
    [name |-> EntryName(k), dir |-> FALSE,
     ext |-> IF k % 10 = 0 THEN ".txt" ELSE IF k % 4 = 1 THEN ".WAV" ELSE ".wav"]

\* The widths of the terminal.
TermWidths == {31, 32, 33, 37, 80}

\* sort.Strings: a < b, byte by byte.
RECURSIVE BytesLess(_, _)
BytesLess(a, b) ==
    IF b = <<>> THEN FALSE
    ELSE IF a = <<>> THEN TRUE
    ELSE IF Head(a) # Head(b) THEN Head(a) < Head(b)
    ELSE BytesLess(Tail(a), Tail(b))

\* renderDir: the names of the entries that are audio files, sorted.
ListedFiles(ents) ==
    LET audio == SelectSeq(ents,
                     LAMBDA e : ~e.dir /\ ToLower(e.ext) \in audioExt)
    IN  SortSeq([i \in 1..Len(audio) |-> audio[i].name], BytesLess)

\* renderDir: sparkW.
SparkWidth(w) ==
    IF w - SparkOff < SparkMin THEN SparkMin
    ELSE IF w - SparkOff > SparkMax THEN SparkMax
    ELSE w - SparkOff

\* renderDir: nameW := width - sparkW - 16
NameWidth(w) == w - SparkWidth(w) - OtherCols

\* renderDir: the line of a file: the name, cut to nameW bytes when it is
\* longer and followed by nameW - len(name) spaces, and a sparkline of sparkW
\* glyphs.
FileLine(name, w) ==
    LET cut == IF Len(name) > NameWidth(w)
               THEN SubSeq(name, 1, NameWidth(w)) ELSE name
    IN  [name |-> cut \o [j \in 1..(NameWidth(w) - Len(cut)) |-> ByteSpace],
         spark |-> SparkWidth(w)]

\* renderDir(dirpath, width, maxfiles): name[:nameW] panics when nameW is
\* negative; else the lines of the first maxfiles files and, when there are
\* more, "  ... +N more".
renderDir(ents, w, maxfiles) ==
    LET fs == ListedFiles(ents)
        lim == IF Len(fs) > maxfiles THEN maxfiles ELSE Len(fs)
    IN  IF Len(fs) = 0 THEN <<[text |-> "  [no audio files]"]>>
        ELSE IF NameWidth(w) < 0 THEN Panic
        ELSE [i \in 1..lim |-> FileLine(fs[i], w)]
             \o (IF Len(fs) > maxfiles
                 THEN <<[more |-> Len(fs) - maxfiles]>> ELSE <<>>)

DirIdle ==
    /\ dirEntries = <<>>
    /\ termWidth = 0
    /\ listing = NoListing


DirStart ==
    /\ \E n \in 0..MaxListed : dirEntries = [k \in 1..n |-> Entry(k)]
    /\ termWidth \in TermWidths
    /\ listing = NoListing

\* aw: fmt.Println(renderDir(path, *width, 50))
RenderDir ==
    /\ listing = NoListing
    /\ termWidth > 0
    /\ listing' = renderDir(dirEntries, termWidth, MaxFilesShown)
    /\ UNCHANGED <<dirEntries, termWidth, plotVars, reuseVars, tempoVars, peakVars,
                   sparkVars, codecVars, pathVars, playVars, indexVars>>

\* ------------------------------------------------- the sparkline of the cache

\* The samples a stored sparkline was made from, and those of the file now.
FewSeqs == UNION {[1..n -> {0, 1, 3}] : n \in 0..2}

\* The sparklines the cache may hold for the file: none, or one that
\* alf-index has made at some width from what the file held then.
StoredSparks ==
    {<<>>} \cup {indexSparkline(old, w) : old \in FewSeqs, w \in 1..MaxWidth}

\* alf-list, main: spark = m.Spark if m.Spark != "" and
\* len([]rune(m.Spark)) == *sparkW, else miniSparkline(fpath, *sparkW).
listSpark(cached, smp, w) ==
    IF cached # <<>> /\ Len(cached) = w THEN cached ELSE listSparkline(smp, w)

ReuseIdle ==
    /\ stored = <<>>
    /\ shown = NoSpark
    /\ shownBy = "none"

DrawIdle == PlotIdle /\ DirIdle /\ ReuseIdle

ReuseStart ==
    /\ samples \in FewSeqs
    /\ width \in 1..MaxWidth
    /\ peaks = NoPeaks
    /\ stored \in StoredSparks
    /\ shown = NoSpark
    /\ shownBy = "none"

\* alf-list <directory>, for the file
ListShow ==
    /\ shown = NoSpark
    /\ width > 0
    /\ shown' = listSpark(stored, samples, width)
    /\ shownBy' = "alf-list"
    /\ UNCHANGED <<stored, tempoVars, peakVars, sparkVars, plotVars, dirVars, codecVars,
                   pathVars, playVars, indexVars>>

\* aw -1 <file>: renderSparkline(path, *width); the cache is not read.
AwShow ==
    /\ shown = NoSpark
    /\ width > 0
    /\ shown' = renderSparkline(samples, width)
    /\ shownBy' = "aw -1"
    /\ UNCHANGED <<stored, tempoVars, peakVars, sparkVars, plotVars, dirVars, codecVars,
                   pathVars, playVars, indexVars>>

\* aw <directory>: renderDir calls renderSparkline(fpath, sparkW); of the
\* cache it reads BPM only.
AwDirShow ==
    /\ shown = NoSpark
    /\ width > 0
    /\ shown' = renderSparkline(samples, width)
    /\ shownBy' = "aw dir"
    /\ UNCHANGED <<stored, tempoVars, peakVars, sparkVars, plotVars, dirVars, codecVars,
                   pathVars, playVars, indexVars>>

\* ---------------------------------------------------------------------- tempo

\* Beat timestamps are counted in quarters of a second, which float64 holds
\* exactly, and so their differences.
PerSecond == 4
MaxBeatLines == 4

\* A line of aubiotrack's output that strconv.ParseFloat refuses.
Junk == -1
NoBpm == <<-1>>

\* The timestamps in the output: 1.0, 1.5, 2.0, 2.5 s, and 0, 8 and 125 s.
TimeVals == {0, 4, 6, 8, 10, 32, 500}
TrackOuts ==
    [ok : BOOLEAN,
     lines : UNION {[1..n -> TimeVals \cup {Junk}] : n \in 0..MaxBeatLines}]

\* The s for which t / (n * 2^s) is in (1/2, 1], for t, n > 0.
Scale(t, n) == CHOOSE s \in 0..15 : n * 2^s >= t /\ (s = 0 \/ n * 2^(s - 1) < t)

\* 60.0 / (total / float64(n)) for a total of t quarters of a second,
\* compared with the half integer c/2: -1 when it is less, 0 when equal, 1
\* when greater; t, n, c > 0.  avgInterval is t/n/4 with the error of the
\* rounded quotient; when 240n/t is c/2 itself, the second quotient is c/2
\* less that error's share of it, and is rounded to c/2 unless it is beyond
\* half the distance to the next float64.
BpmCmp(t, n, c) ==
    IF 2 * 60 * PerSecond * n < c * t THEN -1
    ELSE IF 2 * 60 * PerSecond * n > c * t THEN 1
    ELSE LET q == n * 2^Scale(t, n)
             d == DivError(t, q)
             half == t * 2^(Log2(c) + Shift(t, q))
         IN  IF d > 0 /\ (IF 2^Log2(c) = c THEN 4 ELSE 2) * d * c > half
             THEN -1
             ELSE IF d < 0 /\ 2 * (0 - d) * c > half THEN 1
             ELSE 0

\* The integer below the float64 quotient, whatever its fraction.
BpmTruncated(t, n) == (60 * PerSecond * n) \div t

\* The integer fmt's %.0f prints for 60.0 / (total / float64(n)): the
\* nearest one, the even one of two that are as near.
BpmRound(t, n) ==
    LET low == (60 * PerSecond * n) \div t
    IN  CHOOSE m \in {low, low + 1} :
            /\ \/ m = 0
               \/ BpmCmp(t, n, 2 * m - 1) > 0
               \/ BpmCmp(t, n, 2 * m - 1) = 0 /\ m % 2 = 0
            /\ \/ BpmCmp(t, n, 2 * m + 1) < 0
               \/ BpmCmp(t, n, 2 * m + 1) = 0 /\ m % 2 = 0

\* The decimal digits of m >= 0.
RECURSIVE Digits(_)
Digits(m) == IF m < 10 THEN <<m>> ELSE Append(Digits(m \div 10), m % 10)

\* detectBPM on the output of aubiotrack: "" when aubiotrack fails, when its
\* trimmed output has fewer than two lines, when fewer than two of them
\* parse, and when avgInterval is not positive; an empty output is one empty
\* line.
detectBPMFrom(out) ==
    IF ~out.ok THEN <<>>
    ELSE IF Len(out.lines) < 2 THEN <<>>
    ELSE LET beats == SelectSeq(out.lines, LAMBDA l : l # Junk)
         IN  IF Len(beats) < 2 THEN <<>>
             ELSE LET totalInterval == beats[Len(beats)] - beats[1]
                  IN  IF totalInterval <= 0 THEN <<>>
                      ELSE Digits(BpmRound(totalInterval, Len(beats) - 1))

TempoIdle ==
    /\ trackOut = [ok |-> FALSE, lines |-> <<>>]
    /\ bpm = NoBpm

TempoStart ==
    /\ trackOut \in TrackOuts
    /\ bpm = NoBpm

\* extractMeta: bpm := detectBPM(path)
DetectBPM ==
    /\ bpm = NoBpm
    /\ bpm' = detectBPMFrom(trackOut)
    /\ UNCHANGED <<trackOut, peakVars, sparkVars, drawVars, codecVars,
                   pathVars, playVars, indexVars>>

\* No codec, no cache file of a directory and no renderer is at work.
LibIdle ==
    CodecIdle /\ PathIdle /\ PeakIdle /\ SparkIdle /\ DrawIdle /\ TempoIdle

\* ------------------------------------------------------------------ the player

\* mpc stop
MpcStop == mpdState' = "stop" /\ mpdPos' = 0 /\ UNCHANGED mpdSongs

\* mpc clear
MpcClear == mpdState' = "stop" /\ mpdPos' = 0 /\ mpdSongs' = 0

\* mpc add file://abs: fails, changing nothing, for a file that is not there.
MpcAdd(abs) ==
    /\ mpdSongs' = IF abs \in Playable THEN mpdSongs + 1 ELSE mpdSongs
    /\ UNCHANGED <<mpdState, mpdPos>>

\* mpc play: starts the current song; fails on an empty queue.
MpcPlay ==
    /\ mpdState' = IF mpdSongs = 0 THEN mpdState ELSE "play"
    /\ UNCHANGED <<mpdSongs, mpdPos>>

\* The player's state after mpc toggle.
Toggled(state, songs) ==
    CASE state = "play" -> "pause"
      [] state = "pause" -> "play"
      [] OTHER -> IF songs = 0 THEN "stop" ELSE "play"

\* mpc toggle
MpcToggle ==
    /\ mpdState' = Toggled(mpdState, mpdSongs)
    /\ UNCHANGED <<mpdSongs, mpdPos>>

\* A seek that moves the position of a stopped player too.
MpcSeekStopped(offset) ==
    /\ mpdPos' = offset
    /\ UNCHANGED <<mpdState, mpdSongs>>

\* mpc seek OFFSET: moves within the current song; fails when nothing plays.
MpcSeek(offset) ==
    /\ mpdPos' = IF mpdState = "stop" THEN mpdPos ELSE offset
    /\ UNCHANGED <<mpdState, mpdSongs>>

\* isPlaying / isPaused: `mpc status` holds "[playing]" / "[paused]".
isPlaying == mpdState = "play"
isPaused == mpdState = "pause"

\* parsePos: elapsed/total of the status line, -1 when there is none.
parsePos == IF mpdState = "stop" THEN -1 ELSE mpdPos

\* An mpv process: st is "none" before it is started, "boot" until it has
\* created its control socket, then "play" or "pause", and "exit" once it has
\* exited; pos is its position in the track, 0..MaxPos.
NoMpv == [st |-> "none", pos |-> 0]

\* ------------------------------------------------------------- alf-play: main

PlayStart(invocations, played) ==
    /\ proc = [p \in Procs |-> Unborn]
    /\ pidFile = NoPid
    /\ posFile = NoPos
    /\ posBy = NoPid
    /\ fileFile = NoFile
    /\ autoplayFile = FALSE
    /\ mpdState = "stop"
    /\ mpdSongs = 0
    /\ mpdPos = 0
    /\ lfShown = FALSE
    /\ quiet = FALSE
    /\ plays = played
    /\ limit = invocations
    /\ mpv = [i \in Procs |-> NoMpv]
    /\ mpvSocket = NoPid

PlayInit(invocations, played) ==
    PlayStart(invocations, played) /\ IndexStart(0, 0, FALSE, FALSE) /\ LibIdle

\* Process ids are handed out in order: the next process to start is the
\* lowest one not started yet.
NextPid(p) ==
    /\ p <= limit
    /\ pc(p) = "idle"
    /\ \A q \in Procs : q < p => pc(q) # "idle"

\* play(filepath, lfID) is entered in the daemonized child.
EnterPlay(p, command, a) ==
    /\ proc' = [proc EXCEPT ![p] = [Unborn EXCEPT !.pc = "sc_kill",
                                     !.cmd = command, !.arg = a,
                                     !.active = ActiveSession]]
    /\ quiet' = FALSE

\* main, case "play", with FILE and LF_ID: play in the daemonized child.
MainPlay(p, a) ==
    /\ NextPid(p)
    /\ plays < MaxPlays
    /\ plays' = plays + 1
    /\ EnterPlay(p, "play", a)
    /\ UNCHANGED <<sessionFiles, autoplayFile, mpdVars, lfShown, limit, mpvVars, indexVars, libVars>>

\* main, case "stop"
MainStop(p) ==
    /\ NextPid(p)
    /\ proc' = [proc EXCEPT ![p] =
                  [Unborn EXCEPT !.pc = "sc_kill", !.cmd = "stop",
                                 !.active = ActiveSession]]
    /\ UNCHANGED <<sessionFiles, autoplayFile, mpdVars, lfShown, quiet, plays, limit, mpvVars, indexVars, libVars>>

\* The FILE arguments tried with pause: none, and a path below a directory
\* that does not exist.
PauseArgs == {NoArg, "x/c.wav"}

\* main, case "pause": the process starts and is about to ask isPlaying().
MainPause(p, a) ==
    /\ NextPid(p)
    /\ a # NoArg => plays < MaxPlays
    /\ plays' = IF a # NoArg THEN plays + 1 ELSE plays
    /\ proc' = [proc EXCEPT ![p] =
                  [Unborn EXCEPT !.pc = "pz_playing", !.cmd = "pause",
                                 !.arg = a, !.active = ActiveSession]]
    /\ UNCHANGED <<sessionFiles, autoplayFile, mpdVars, lfShown, quiet, limit, mpvVars, indexVars, libVars>>

\* pause: isPlaying(), the left operand of `isPlaying() || isPaused()`.
PauseIsPlaying(p) ==
    /\ pc(p) = "pz_playing"
    /\ proc' = [proc EXCEPT
                  ![p].pc = IF isPlaying THEN "pz_toggle" ELSE "pz_paused",
                  ![p].active = @ /\ SessionActive]
    /\ UNCHANGED <<sessionFiles, autoplayFile, mpdVars, lfShown, quiet, plays, limit, mpvVars, indexVars, libVars>>

\* daemonize: the command is executed again, with _ALF_DAEMON=1, in a child
\* process, whose main takes the case "pause" anew.
Daemonize(p) ==
    proc' = [proc EXCEPT ![p].pc = "pz_playing", ![p].cmd = "pause_d"]

\* pause: isPaused(), asked only when isPlaying() was false; when both are
\* false and FILE and LF_ID were given, daemonize: the parent starts the
\* child, and the child, where both are false again, runs play.
PauseIsPaused(p) ==
    /\ pc(p) = "pz_paused"
    /\ IF isPaused
       THEN Goto(p, "pz_toggle") /\ UNCHANGED quiet
       ELSE IF proc[p].arg = NoArg
       THEN Exit(p) /\ UNCHANGED quiet
       ELSE IF proc[p].cmd = "pause"
       THEN Daemonize(p) /\ UNCHANGED quiet
       ELSE EnterPlay(p, "pause_d", proc[p].arg)
    /\ UNCHANGED <<sessionFiles, autoplayFile, mpdVars, lfShown, plays, limit, mpvVars, indexVars, libVars>>

\* pause: mpc("toggle"), and main returns.
PauseToggle(p) ==
    /\ pc(p) = "pz_toggle"
    /\ MpcToggle
    /\ Exit(p)
    /\ UNCHANGED <<sessionFiles, autoplayFile, lfShown, quiet, plays, limit, mpvVars, indexVars, libVars>>

\* ----------------------------------------------------------------- stopCurrent

\* The process the pid file names, when stopCurrent signals one: the file is
\* there, holds a pid > 0 and the pid is not the caller's.
SignalTarget(p) ==
    IF pidFile # NoPid /\ pidFile > 0 /\ pidFile # p THEN {pidFile} ELSE {}

\* proc.Signal(os.Interrupt): a process that exists is terminated by the
\* signal; for a pid whose process is gone the signal is a no-op.
Signalled(p) == {q \in SignalTarget(p) : Alive(q)}

\* stopCurrent: read the pid file and signal the process it names.
StopCurrentKill(p) ==
    /\ pc(p) = "sc_kill"
    /\ proc' = [q \in Procs |->
                  IF q = p THEN [proc[p] EXCEPT !.pc = "sc_stop"]
                  ELSE IF q \in Signalled(p) THEN Gone ELSE proc[q]]
    /\ UNCHANGED <<sessionFiles, autoplayFile, mpdVars, lfShown, quiet, plays, limit, mpvVars, indexVars, libVars>>

\* stopCurrent: mpc("stop")
StopCurrentMpcStop(p) ==
    /\ pc(p) = "sc_stop"
    /\ MpcStop
    /\ Goto(p, "sc_clear")
    /\ UNCHANGED <<sessionFiles, autoplayFile, lfShown, quiet, plays, limit, mpvVars, indexVars, libVars>>

\* stopCurrent: mpc("clear")
StopCurrentMpcClear(p) ==
    /\ pc(p) = "sc_clear"
    /\ MpcClear
    /\ Goto(p, "sc_rm_pos")
    /\ UNCHANGED <<sessionFiles, autoplayFile, lfShown, quiet, plays, limit, mpvVars, indexVars, libVars>>

\* os.Remove(posFile), os.Remove(fileFile): the first two removals of
\* stopCurrent and of play's cleanup.
RemovePos(p, from, to) ==
    /\ pc(p) = from
    /\ posFile' = NoPos
    /\ posBy' = NoPid
    /\ Goto(p, to)
    /\ UNCHANGED <<pidFile, fileFile, autoplayFile, mpdVars, lfShown, quiet,
                   plays, limit, mpvVars, indexVars, libVars>>

RemoveFile(p, from, to) ==
    /\ pc(p) = from
    /\ fileFile' = NoFile
    /\ Goto(p, to)
    /\ UNCHANGED <<pidFile, posFile, posBy, autoplayFile, mpdVars, lfShown, quiet,
                   plays, limit, mpvVars, indexVars, libVars>>

StopCurrentRemovePos(p) == RemovePos(p, "sc_rm_pos", "sc_rm_file")

StopCurrentRemoveFile(p) == RemoveFile(p, "sc_rm_file", "sc_rm_pid")

\* A stopCurrent that removes the autoplay file with the pid file.
StopCurrentRemovesFlag(p) ==
    /\ pc(p) = "sc_rm_pid"
    /\ pidFile' = NoPid
    /\ autoplayFile' = FALSE
    /\ IF proc[p].cmd = "stop"
       THEN Exit(p) /\ quiet' = (quiet \/ (proc[p].active /\ Latest(p)))
       ELSE Goto(p, "wr_pid") /\ UNCHANGED quiet
    /\ UNCHANGED <<posFile, posBy, fileFile, mpdVars, lfShown, plays, limit, mpvVars, indexVars, libVars>>

\* os.Remove(pidFile), stopCurrent's last call: the stop command is over
\* (main returns), play goes on to write its pid.
StopCurrentRemovePid(p) ==
    /\ pc(p) = "sc_rm_pid"
    /\ pidFile' = NoPid
    /\ IF proc[p].cmd = "stop"
       THEN Exit(p) /\ quiet' = (quiet \/ (proc[p].active /\ Latest(p)))
       ELSE Goto(p, "wr_pid") /\ UNCHANGED quiet
    /\ UNCHANGED <<posFile, posBy, fileFile, autoplayFile, mpdVars, lfShown, plays, limit, mpvVars, indexVars, libVars>>

\* ------------------------------------------------------------------------ play

\* os.WriteFile(pidFile, os.Getpid())
PlayWritePid(p) ==
    /\ pc(p) = "wr_pid"
    /\ pidFile' = p
    /\ Goto(p, "wr_file")
    /\ UNCHANGED <<posFile, posBy, fileFile, autoplayFile, mpdVars, lfShown, quiet,
                   plays, limit, mpvVars, indexVars, libVars>>

\* abs := absPath(filepath) (filepath itself on error); os.WriteFile(fileFile, abs)
PlayWriteFile(p) ==
    /\ pc(p) = "wr_file"
    /\ fileFile' = PlayAbs(proc[p].arg)
    /\ Goto(p, "pl_clear")
    /\ UNCHANGED <<pidFile, posFile, posBy, autoplayFile, mpdVars, lfShown, quiet,
                   plays, limit, mpvVars, indexVars, libVars>>

\* mpc("clear")
PlayMpcClear(p) ==
    /\ pc(p) = "pl_clear"
    /\ MpcClear
    /\ Goto(p, "pl_add")
    /\ UNCHANGED <<sessionFiles, autoplayFile, lfShown, quiet, plays, limit, mpvVars, indexVars, libVars>>

\* mpc("add", "file://"+abs)
PlayMpcAdd(p) ==
    /\ pc(p) = "pl_add"
    /\ MpcAdd(PlayAbs(proc[p].arg))
    /\ Goto(p, "pl_play")
    /\ UNCHANGED <<sessionFiles, autoplayFile, lfShown, quiet, plays, limit, mpvVars, indexVars, libVars>>

\* mpc("play"); lastPos = -1
PlayMpcPlay(p) ==
    /\ pc(p) = "pl_play"
    /\ MpcPlay
    /\ proc' = [proc EXCEPT ![p].pc = "lp_playing", ![p].lastPos = -1]
    /\ UNCHANGED <<sessionFiles, autoplayFile, lfShown, quiet, plays, limit, mpvVars, indexVars, libVars>>

\* The refresh condition of the monitoring loop: a position was parsed and it
\* is the first one or differs from the last written one by at least 0.005
\* (positions are fractions k/MaxPos).
Moved(pos, last) ==
    LET d == IF pos >= last THEN pos - last ELSE last - pos
    IN  d * 1000 >= 5 * MaxPos

ShouldWrite(pos, last) == pos >= 0 /\ (last < 0 \/ Moved(pos, last))

\* Monitoring loop: isPlaying(), the left operand of
\* `!isPlaying() && !isPaused()`.
LoopIsPlaying(p) ==
    /\ pc(p) = "lp_playing"
    /\ Goto(p, IF isPlaying THEN "lp_parse" ELSE "lp_paused")
    /\ UNCHANGED <<sessionFiles, autoplayFile, mpdVars, lfShown, quiet, plays, limit, mpvVars, indexVars, libVars>>

\* Monitoring loop: isPaused(); the loop is left when both were false.
LoopIsPaused(p) ==
    /\ pc(p) = "lp_paused"
    /\ Goto(p, IF isPaused THEN "lp_parse" ELSE "cl_rm_pos")
    /\ UNCHANGED <<sessionFiles, autoplayFile, mpdVars, lfShown, quiet, plays, limit, mpvVars, indexVars, libVars>>

\* Monitoring loop: pos := parsePos(), then the test of the refresh
\* condition; when it fails the loop sleeps and starts over.
LoopParsePos(p) ==
    /\ pc(p) = "lp_parse"
    /\ IF ShouldWrite(parsePos, proc[p].lastPos)
       THEN proc' = [proc EXCEPT ![p].pc = "lp_write", ![p].pos = parsePos]
       ELSE Goto(p, "lp_playing")
    /\ UNCHANGED <<sessionFiles, autoplayFile, mpdVars, lfShown, quiet, plays, limit, mpvVars, indexVars, libVars>>

\* lf -remote "send <id> reload": the browser renders its view again, with
\* the position highlighted when the pos file is there.
LfReload(pos) == lfShown' = (pos # NoPos)

\* Monitoring loop: os.WriteFile(posFile, pos), lf reload, lastPos = pos,
\* sleep.
LoopWritePos(p) ==
    /\ pc(p) = "lp_write"
    /\ posFile' = proc[p].pos
    /\ posBy' = p
    /\ LfReload(posFile')
    /\ proc' = [proc EXCEPT ![p].pc = "lp_playing",
                            ![p].lastPos = proc[p].pos, ![p].pos = -1]
    /\ UNCHANGED <<pidFile, fileFile, autoplayFile, mpdVars, quiet, plays, limit, mpvVars, indexVars, libVars>>

\* Cleanup after the loop: the three removals, then the final reload.
CleanupRemovePos(p) == RemovePos(p, "cl_rm_pos", "cl_rm_file")

CleanupRemoveFile(p) == RemoveFile(p, "cl_rm_file", "cl_rm_pid")

CleanupRemovePid(p) ==
    /\ pc(p) = "cl_rm_pid"
    /\ pidFile' = NoPid
    /\ Goto(p, "cl_reload")
    /\ UNCHANGED <<posFile, posBy, fileFile, autoplayFile, mpdVars, lfShown, quiet,
                   plays, limit, mpvVars, indexVars, libVars>>

\* exec.Command("lf", "-remote", "send <id> reload").Run(); play returns.
CleanupReload(p) ==
    /\ pc(p) = "cl_reload"
    /\ LfReload(posFile)
    /\ Exit(p)
    /\ UNCHANGED <<sessionFiles, autoplayFile, mpdVars, quiet, plays, limit, mpvVars, indexVars, libVars>>

\* ------------------------------------------------------------- seek, autoplay

\* The OFFSET arguments of seek; NoSeekArg stands for a missing argument.
NoSeekArg == -1
SeekArgs == 0..MaxPos

\* main, case "seek": mpc("seek", OFFSET) when an offset is given.
MainSeek(offset) ==
    /\ IF offset # NoSeekArg THEN MpcSeek(offset) ELSE UNCHANGED mpdVars
    /\ UNCHANGED <<proc, sessionFiles, autoplayFile, lfShown, quiet, plays, limit, mpvVars, indexVars, libVars>>

\* getAutoplay: os.Stat(autoplayFile) succeeds.
getAutoplay(exists) == exists

\* setAutoplay: the autoplay file after WriteFile (on) or Remove (off).
setAutoplay(on) == on

AutoplayArgs == {"on", "off", "toggle", "", "status"}

\* An autoplay command whose toggle only ever switches the flag on.
AutoplayToggleSets(sub, exists) ==
    CASE sub = "on" -> setAutoplay(TRUE)
      [] sub = "off" -> setAutoplay(FALSE)
      [] sub = "toggle" -> setAutoplay(TRUE)
      [] OTHER -> exists

\* The autoplay file after the sub-command has run.
AutoplayEffect(sub, exists) ==
    CASE sub = "on" -> setAutoplay(TRUE)
      [] sub = "off" -> setAutoplay(FALSE)
      [] sub = "toggle" -> setAutoplay(~getAutoplay(exists))
      [] OTHER -> exists

\* What the command prints: "autoplay: ON" or "autoplay: OFF", from the
\* state after the sub-command.
AutoplayReport(sub, exists) ==
    IF getAutoplay(AutoplayEffect(sub, exists)) THEN "ON" ELSE "OFF"

\* main, case "autoplay": the sub-command, then the report of the state.
MainAutoplay(sub) ==
    /\ autoplayFile' = AutoplayEffect(sub, autoplayFile)
    /\ UNCHANGED <<proc, sessionFiles, mpdVars, lfShown, quiet, plays, limit, mpvVars, indexVars, libVars>>

\* ----------------------------------------------------- the player on its own

\* Playback advances.
MpdTick ==
    /\ mpdState = "play"
    /\ mpdPos < MaxPos
    /\ mpdPos' = mpdPos + 1
    /\ UNCHANGED <<proc, sessionFiles, autoplayFile, mpdState, mpdSongs,
                   lfShown, quiet, plays, limit, mpvVars, indexVars, libVars>>

\* The current song ends: the next one of the queue starts, or playback stops.
MpdSongEnds ==
    /\ mpdState = "play"
    /\ mpdPos = MaxPos
    /\ mpdPos' = 0
    /\ IF mpdSongs > 1
       THEN mpdSongs' = mpdSongs - 1 /\ mpdState' = "play"
       ELSE mpdSongs' = mpdSongs /\ mpdState' = "stop"
    /\ UNCHANGED <<proc, sessionFiles, autoplayFile, lfShown, quiet, plays, limit, mpvVars, indexVars, libVars>>

\* ------------------------------------------------- alf-play driving mpv

\* What the mpv version's commands never touch.
mpvFrame == <<autoplayFile, mpdVars, quiet, limit, indexVars, libVars>>

\* The FILE arguments tried: a regular file and a symbolic link to it.
MpvPathArgs == {"b.wav", "l.wav"}
MpvPauseArgs == {NoArg, "b.wav"}

\* realpath: os.Readlink, the content of a symbolic link and an error for
\* anything else.
realpath(path) ==
    IF path = "l.wav" THEN <<"b.wav", TRUE>> ELSE <<"", FALSE>>

\* play: abs, err := realpath(filepath); if err != nil { abs = filepath }
MpvPlayAbs(path) == IF realpath(path)[2] THEN realpath(path)[1] ELSE path

\* The mpv process that answers on the control socket, if any: mpvCmd gets
\* nil when the dial fails.
Answering ==
    IF mpvSocket # NoPid /\ mpv[mpvSocket].st \in {"play", "pause"}
    THEN {mpvSocket} ELSE {}

\* play(filepath, lfID) is entered in the daemonized child.
MpvEnterPlay(p, command, a) ==
    proc' = [proc EXCEPT ![p] = [Unborn EXCEPT !.pc = "v_kill",
                                  !.cmd = command, !.arg = a]]

\* main, case "play"
MpvMainPlay(p, a) ==
    /\ NextPid(p)
    /\ plays < MaxPlays
    /\ plays' = plays + 1
    /\ MpvEnterPlay(p, "play", a)
    /\ UNCHANGED <<sessionFiles, lfShown, mpvVars, mpvFrame>>

\* main, case "stop"
MpvMainStop(p) ==
    /\ NextPid(p)
    /\ proc' = [proc EXCEPT ![p] =
                  [Unborn EXCEPT !.pc = "v_kill", !.cmd = "stop"]]
    /\ UNCHANGED <<sessionFiles, lfShown, plays, mpvVars, mpvFrame>>

\* main, case "pause": the process starts and is about to ask isPlaying().
MpvMainPause(p, a) ==
    /\ NextPid(p)
    /\ a # NoArg => plays < MaxPlays
    /\ plays' = IF a # NoArg THEN plays + 1 ELSE plays
    /\ proc' = [proc EXCEPT ![p] =
                  [Unborn EXCEPT !.pc = "v_playing", !.cmd = "pause", !.arg = a]]
    /\ UNCHANGED <<sessionFiles, lfShown, mpvVars, mpvFrame>>

\* pause: isPlaying(), that is mpvCmd(get_property pid) != nil; when it is
\* false and FILE and LF_ID were given, daemonize: the parent starts the
\* child, and the child, where it is false again, runs play.
MpvPauseIsPlaying(p) ==
    /\ pc(p) = "v_playing"
    /\ IF Answering # {}
       THEN Goto(p, "v_cycle")
       ELSE IF proc[p].arg = NoArg
       THEN Exit(p)
       ELSE IF proc[p].cmd = "pause"
       THEN proc' = [proc EXCEPT ![p].cmd = "pause_d"]
       ELSE MpvEnterPlay(p, "pause_d", proc[p].arg)
    /\ UNCHANGED <<sessionFiles, lfShown, plays, mpvVars, mpvFrame>>

\* pause: mpvCmd(cycle pause)
MpvCyclePause(p) ==
    /\ pc(p) = "v_cycle"
    /\ mpv' = [i \in Procs |->
                 IF i \in Answering
                 THEN [mpv[i] EXCEPT !.st = IF @ = "play" THEN "pause" ELSE "play"]
                 ELSE mpv[i]]
    /\ Exit(p)
    /\ UNCHANGED <<sessionFiles, lfShown, plays, mpvSocket, mpvFrame>>

\* stopCurrent: read the pid file, syscall.Kill(pid, SIGTERM) unless the pid
\* is the caller's.  The signal ends the controller, not its mpv.
MpvTermTarget(p) ==
    {q \in Procs : pidFile # NoPid /\ pidFile # p /\ q = pidFile /\ Alive(q)}

MpvStopCurrentKill(p) ==
    /\ pc(p) = "v_kill"
    /\ proc' = [q \in Procs |->
                  IF q = p THEN [proc[p] EXCEPT !.pc = "v_quit"]
                  ELSE IF q \in MpvTermTarget(p) THEN Gone ELSE proc[q]]
    /\ UNCHANGED <<sessionFiles, lfShown, plays, mpvVars, mpvFrame>>

\* stopCurrent: mpvCmd(quit), then a sleep of 50ms.
MpvStopCurrentQuit(p) ==
    /\ pc(p) = "v_quit"
    /\ mpv' = [i \in Procs |->
                 IF i \in Answering THEN [mpv[i] EXCEPT !.st = "exit"]
                 ELSE mpv[i]]
    /\ Goto(p, "v_rm_pos")
    /\ UNCHANGED <<sessionFiles, lfShown, plays, mpvSocket, mpvFrame>>

\* stopCurrent: os.Remove of posFile, fileFile, pidFile, in this order.
MpvStopCurrentRemovePos(p) ==
    /\ pc(p) = "v_rm_pos"
    /\ posFile' = NoPos
    /\ posBy' = NoPid
    /\ Goto(p, "v_rm_file")
    /\ UNCHANGED <<pidFile, fileFile, lfShown, plays, mpvVars, mpvFrame>>

MpvStopCurrentRemoveFile(p) ==
    /\ pc(p) = "v_rm_file"
    /\ fileFile' = NoFile
    /\ Goto(p, "v_rm_pid")
    /\ UNCHANGED <<pidFile, posFile, posBy, lfShown, plays, mpvVars, mpvFrame>>

\* The last removal: stop is over, play goes on to write its pid.
MpvStopCurrentRemovePid(p) ==
    /\ pc(p) = "v_rm_pid"
    /\ pidFile' = NoPid
    /\ IF proc[p].cmd = "stop" THEN Exit(p) ELSE Goto(p, "v_wr_pid")
    /\ UNCHANGED <<posFile, posBy, fileFile, lfShown, plays, mpvVars, mpvFrame>>

\* play: os.WriteFile(pidFile, os.Getpid())
MpvPlayWritePid(p) ==
    /\ pc(p) = "v_wr_pid"
    /\ pidFile' = p
    /\ Goto(p, "v_wr_file")
    /\ UNCHANGED <<posFile, posBy, fileFile, lfShown, plays, mpvVars, mpvFrame>>

\* play: abs from realpath; os.WriteFile(fileFile, abs)
MpvPlayWriteFile(p) ==
    /\ pc(p) = "v_wr_file"
    /\ fileFile' = MpvPlayAbs(proc[p].arg)
    /\ Goto(p, "v_rm_sock")
    /\ UNCHANGED <<pidFile, posFile, posBy, lfShown, plays, mpvVars, mpvFrame>>

\* play: os.Remove(mpvSocket), the stale socket
MpvPlayRemoveSocket(p) ==
    /\ pc(p) = "v_rm_sock"
    /\ mpvSocket' = NoPid
    /\ Goto(p, "v_start")
    /\ UNCHANGED <<sessionFiles, lfShown, plays, mpv, mpvFrame>>

\* play: cmd.Start() succeeds and mpv runs
MpvPlayStart(p) ==
    /\ pc(p) = "v_start"
    /\ mpv' = [mpv EXCEPT ![p] = [st |-> "boot", pos |-> 0]]
    /\ Goto(p, "v_wait")
    /\ UNCHANGED <<sessionFiles, lfShown, plays, mpvSocket, mpvFrame>>

\* A play that removes the session files before it returns from a failed
\* cmd.Start().
MpvPlayStartFailsCleans(p) ==
    /\ pc(p) = "v_start"
    /\ Exit(p)
    /\ pidFile' = NoPid
    /\ posFile' = NoPos
    /\ posBy' = NoPid
    /\ fileFile' = NoFile
    /\ UNCHANGED <<lfShown, plays, mpvVars, mpvFrame>>

\* play: cmd.Start() fails (no mpv to execute) and play returns
MpvPlayStartFails(p) ==
    /\ pc(p) = "v_start"
    /\ Exit(p)
    /\ UNCHANGED <<sessionFiles, lfShown, plays, mpvVars, mpvFrame>>

\* play: the wait for the socket is over, because os.Stat found it or after
\* 30 tries of 50ms.
MpvPlayWaitSocket(p) ==
    /\ pc(p) = "v_wait"
    /\ Goto(p, "v_alive")
    /\ UNCHANGED <<sessionFiles, lfShown, plays, mpvVars, mpvFrame>>

\* cmd.ProcessState is set by cmd.Wait, which play calls after the loop.
ProcessStateExited(p) == FALSE

\* cmd.Process.Signal(0) fails for a process that was waited for; a child
\* that has exited stays in the process table until then.
SignalZeroFails(p) == mpv[p].st = "none"

\* Monitoring loop: the two tests that break out of it.  After the loop come
\* cmd.Wait(), the three removals and the final reload.
MpvLoopAlive(p) ==
    /\ pc(p) = "v_alive"
    /\ Goto(p, IF ProcessStateExited(p) \/ SignalZeroFails(p)
               THEN "v_wait_cmd" ELSE "v_query")
    /\ UNCHANGED <<sessionFiles, lfShown, plays, mpvVars, mpvFrame>>

\* Monitoring loop: pct := mpvCmd(get_property percent-pos); when there is
\* no answer the loop sleeps 300ms and starts over.
MpvLoopQuery(p) ==
    /\ pc(p) = "v_query"
    /\ IF Answering # {}
       THEN proc' = [proc EXCEPT ![p].pc = "v_write",
                                 ![p].pos = mpv[mpvSocket].pos]
       ELSE Goto(p, "v_alive")
    /\ UNCHANGED <<sessionFiles, lfShown, plays, mpvVars, mpvFrame>>

\* Monitoring loop: os.WriteFile(posFile, pct/100), lf reload, sleep 300ms.
MpvLoopWritePos(p) ==
    /\ pc(p) = "v_write"
    /\ posFile' = proc[p].pos
    /\ posBy' = p
    /\ LfReload(posFile')
    /\ proc' = [proc EXCEPT ![p].pc = "v_alive", ![p].pos = -1]
    /\ UNCHANGED <<pidFile, fileFile, plays, mpvVars, mpvFrame>>

\* mpv has created its control socket and plays.
MpvListen(i) ==
    /\ mpv[i].st = "boot"
    /\ mpv' = [mpv EXCEPT ![i].st = "play"]
    /\ mpvSocket' = i
    /\ UNCHANGED <<proc, sessionFiles, lfShown, plays, mpvFrame>>

\* Playback advances.
MpvAdvance(i) ==
    /\ mpv[i].st = "play"
    /\ mpv[i].pos < MaxPos
    /\ mpv' = [mpv EXCEPT ![i].pos = @ + 1]
    /\ UNCHANGED <<proc, sessionFiles, lfShown, plays, mpvSocket, mpvFrame>>

\* The track is over and mpv exits.
MpvTrackEnds(i) ==
    /\ mpv[i].st = "play"
    /\ mpv[i].pos = MaxPos
    /\ mpv' = [mpv EXCEPT ![i].st = "exit"]
    /\ UNCHANGED <<proc, sessionFiles, lfShown, plays, mpvSocket, mpvFrame>>

\* --------------------------------------------------------------- specification

vars == <<playVars, indexVars, libVars>>

\* One step of an alf-play process or a seek command, or a step of the
\* player.
SessionNext ==
    \/ \E p \in Procs, a \in PathArgs : MainPlay(p, a)
    \/ \E p \in Procs : MainStop(p)
    \/ \E p \in Procs, a \in PauseArgs : MainPause(p, a)
    \/ \E p \in Procs : PauseIsPlaying(p)
    \/ \E p \in Procs : PauseIsPaused(p)
    \/ \E p \in Procs : PauseToggle(p)
    \/ \E p \in Procs : StopCurrentKill(p)
    \/ \E p \in Procs : StopCurrentMpcStop(p)
    \/ \E p \in Procs : StopCurrentMpcClear(p)
    \/ \E p \in Procs : StopCurrentRemovePos(p)
    \/ \E p \in Procs : StopCurrentRemoveFile(p)
    \/ \E p \in Procs : StopCurrentRemovePid(p)
    \/ \E p \in Procs : PlayWritePid(p)
    \/ \E p \in Procs : PlayWriteFile(p)
    \/ \E p \in Procs : PlayMpcClear(p)
    \/ \E p \in Procs : PlayMpcAdd(p)
    \/ \E p \in Procs : PlayMpcPlay(p)
    \/ \E p \in Procs : LoopIsPlaying(p)
    \/ \E p \in Procs : LoopIsPaused(p)
    \/ \E p \in Procs : LoopParsePos(p)
    \/ \E p \in Procs : LoopWritePos(p)
    \/ \E p \in Procs : CleanupRemovePos(p)
    \/ \E p \in Procs : CleanupRemoveFile(p)
    \/ \E p \in Procs : CleanupRemovePid(p)
    \/ \E p \in Procs : CleanupReload(p)
    \/ \E o \in SeekArgs \cup {NoSeekArg} : MainSeek(o)
    \/ MpdTick
    \/ MpdSongEnds

\* The commands that drive mpd, MaxProcs invocations of play, stop and pause.
Init == PlayInit(SpecProcs, 0)

Next == SessionNext

Spec == Init /\ [][Next]_vars

\* Number of invocations in a behaviour of the specifications below.
FewProcs == 2

FewInit == PlayInit(FewProcs, 0)

\* The same commands together with the autoplay command.
AutoplayNext ==
    \/ SessionNext
    \/ \E sub \in AutoplayArgs : MainAutoplay(sub)

AutoplaySpec == FewInit /\ [][AutoplayNext]_vars

\* The same commands, MaxProcs invocations of which one may start a session.
PauseInit == PlayInit(MaxProcs, MaxPlays - 1)

PauseSpec == PauseInit /\ [][Next]_vars

\* The steps of a process that is running: the operating system schedules
\* every process, each call it makes returns, and the sleep of the monitoring
\* loop ends after 500ms.
Step(p) ==
    \/ PauseIsPlaying(p) \/ PauseIsPaused(p) \/ PauseToggle(p)
    \/ StopCurrentKill(p) \/ StopCurrentMpcStop(p) \/ StopCurrentMpcClear(p)
    \/ StopCurrentRemovePos(p) \/ StopCurrentRemoveFile(p)
    \/ StopCurrentRemovePid(p)
    \/ PlayWritePid(p) \/ PlayWriteFile(p)
    \/ PlayMpcClear(p) \/ PlayMpcAdd(p) \/ PlayMpcPlay(p)
    \/ LoopIsPlaying(p) \/ LoopIsPaused(p) \/ LoopParsePos(p)
    \/ LoopWritePos(p)
    \/ CleanupRemovePos(p) \/ CleanupRemoveFile(p) \/ CleanupRemovePid(p)
    \/ CleanupReload(p)

\* The commands with processes that keep running.
FairSpec == FewInit /\ [][Next]_vars /\ \A p \in Procs : WF_vars(Step(p))

\* One step of an alf-play process of the version that drives mpv, or a step
\* of an mpv process.
MpvNext ==
    \/ \E p \in Procs, a \in MpvPathArgs : MpvMainPlay(p, a)
    \/ \E p \in Procs : MpvMainStop(p)
    \/ \E p \in Procs, a \in MpvPauseArgs : MpvMainPause(p, a)
    \/ \E p \in Procs : MpvPauseIsPlaying(p)
    \/ \E p \in Procs : MpvCyclePause(p)
    \/ \E p \in Procs : MpvStopCurrentKill(p)
    \/ \E p \in Procs : MpvStopCurrentQuit(p)
    \/ \E p \in Procs : MpvStopCurrentRemovePos(p)
    \/ \E p \in Procs : MpvStopCurrentRemoveFile(p)
    \/ \E p \in Procs : MpvStopCurrentRemovePid(p)
    \/ \E p \in Procs : MpvPlayWritePid(p)
    \/ \E p \in Procs : MpvPlayWriteFile(p)
    \/ \E p \in Procs : MpvPlayRemoveSocket(p)
    \/ \E p \in Procs : MpvPlayStart(p)
    \/ \E p \in Procs : MpvPlayStartFails(p)
    \/ \E p \in Procs : MpvPlayWaitSocket(p)
    \/ \E p \in Procs : MpvLoopAlive(p)
    \/ \E p \in Procs : MpvLoopQuery(p)
    \/ \E p \in Procs : MpvLoopWritePos(p)
    \/ \E i \in Procs : MpvListen(i)
    \/ \E i \in Procs : MpvAdvance(i)
    \/ \E i \in Procs : MpvTrackEnds(i)

\* The steps of a running process of the mpv version.
MpvStep(p) ==
    \/ MpvPauseIsPlaying(p) \/ MpvCyclePause(p)
    \/ MpvStopCurrentKill(p) \/ MpvStopCurrentQuit(p)
    \/ MpvStopCurrentRemovePos(p) \/ MpvStopCurrentRemoveFile(p)
    \/ MpvStopCurrentRemovePid(p)
    \/ MpvPlayWritePid(p) \/ MpvPlayWriteFile(p) \/ MpvPlayRemoveSocket(p)
    \/ MpvPlayStart(p) \/ MpvPlayStartFails(p) \/ MpvPlayWaitSocket(p)
    \/ MpvLoopAlive(p) \/ MpvLoopQuery(p) \/ MpvLoopWritePos(p)

\* The commands that drive mpv, with processes that keep running.
MpvSpec ==
    FewInit /\ [][MpvNext]_vars /\ \A p \in Procs : WF_vars(MpvStep(p))

\* One step of alf-index: of main, of a worker or of the closing goroutine.
IndexNext ==
    \/ IndexReadDirFails
    \/ IndexSelect
    \/ IndexSpawn
    \/ IndexSpawnEnd
    \/ \E f \in Names : WorkerAcquire(f)
    \/ \E f \in Names : WorkerSend(f)
    \/ \E f \in Names : WorkerRelease(f)
    \/ \E f \in Names : WorkerDone(f)
    \/ CloseResults
    \/ Collect
    \/ WriteCreate
    \/ WriteCreateFails
    \/ WriteChunk
    \/ WriteFlush
    \/ WriteFails
    \/ Interrupt

\* alf-index on a directory of up to MaxFiles audio files.
IndexInit ==
    /\ PlayStart(0, 0)
    /\ LibIdle
    /\ \E n \in 0..MaxFiles, cached \in Cached, forced \in BOOLEAN :
          IndexStart(n, cached, forced, FALSE)

IndexSpec == IndexInit /\ [][IndexNext]_vars

\* alf-index is run again on the directory, with or without --force, after a
\* first run that has returned 0: it finds the cache file as that run left
\* it.
IndexAgain(forced) ==
    /\ mainPc = "done"
    /\ exitCode = 0
    /\ fault = "none"
    /\ \E cached \in Cached : before = OldCache(cached)
    /\ force' = forced
    /\ before' = cache
    /\ files' = {}
    /\ existing' = [f \in Names |-> NoMeta]
    /\ toIndex' = <<>>
    /\ mainPc' = "select"
    /\ spawned' = 0
    /\ worker' = [f \in Names |-> "none"]
    /\ sem' = 0
    /\ results' = <<>>
    /\ closed' = FALSE
    /\ wg' = 0
    /\ all' = <<>>
    /\ exitCode' = NoExit
    /\ UNCHANGED <<entries, faulty, withSpark, cache, fault, playVars, libVars>>

\* A step of a goroutine of the run: of main, of a worker, or of the one that
\* waits and closes.
GoStep ==
    \/ IndexReadDirFails
    \/ IndexSelect
    \/ IndexSpawn
    \/ IndexSpawnEnd
    \/ \E f \in Names : WorkerAcquire(f)
    \/ \E f \in Names : WorkerSend(f)
    \/ \E f \in Names : WorkerRelease(f)
    \/ \E f \in Names : WorkerDone(f)
    \/ CloseResults
    \/ Collect
    \/ WriteCreate
    \/ WriteCreateFails
    \/ WriteChunk
    \/ WriteFlush
    \/ WriteFails

\* alf-index without --force on a directory of up to MaxFiles audio files, of
\* which the cache knows none or the first.
IndexFairInit ==
    /\ PlayStart(0, 0)
    /\ LibIdle
    /\ \E n \in 0..MaxFiles, cached \in {0, 1} :
          IndexStart(n, cached, FALSE, FALSE)

\* alf-index with a scheduler that runs a goroutine as long as one can run,
\* and external tools that return.
IndexFairSpec == IndexFairInit /\ [][IndexNext]_vars /\ WF_vars(GoStep)

\* alf-index on a directory of up to FewFiles audio files, with external
\* tools that may fail on any file.
ExtractInit ==
    /\ PlayStart(0, 0)
    /\ LibIdle
    /\ \E n \in 0..FewFiles, cached \in Cached, forced \in BOOLEAN :
          IndexStart(n, cached, forced, TRUE)

ExtractSpec == ExtractInit /\ [][IndexNext]_vars

\* Two runs of alf-index, one after the other, on a directory of FewFiles
\* audio files of which the cache knows the first, with external tools that
\* may fail on any file.
AgainInit ==
    /\ PlayStart(0, 0)
    /\ LibIdle
    /\ IndexStart(FewFiles, 1, FALSE, TRUE)

AgainNext == IndexNext \/ \E forced \in BOOLEAN : IndexAgain(forced)

AgainSpec == AgainInit /\ [][AgainNext]_vars

\* Either build of alf-index on a directory of up to FewFiles audio files
\* and a cache file that the build with the Spark field has written.
BuildsInit ==
    /\ PlayStart(0, 0)
    /\ LibIdle
    /\ \E n \in 0..FewFiles, cached \in Cached, forced, spark \in BOOLEAN :
          IndexStartWith(n, cached, forced, FALSE, spark)

BuildsSpec == BuildsInit /\ [][IndexNext]_vars

\* writeCache and readCache on the text of a cache file.
CodecInit ==
    /\ PlayStart(0, 0)
    /\ IndexStart(0, 0, FALSE, FALSE)
    /\ PathIdle
    /\ PeakIdle
    /\ CodecStart
    /\ SparkIdle
    /\ DrawIdle
    /\ TempoIdle

CodecNext == CodecWrite \/ CodecRead

CodecSpec == CodecInit /\ [][CodecNext]_vars

\* The commands that address the cache file of a directory, run in several
\* working directories.
PathInit ==
    /\ PlayStart(0, 0)
    /\ IndexStart(0, 0, FALSE, FALSE)
    /\ CodecIdle
    /\ PeakIdle
    /\ PathIdle
    /\ SparkIdle
    /\ DrawIdle
    /\ TempoIdle

PathNext ==
    \E cwd \in Cwds, arg \in DirArgs :
        \/ \E forced \in BOOLEAN : PathIndex(cwd, arg, forced)
        \/ PathList(cwd, arg)
        \/ PathRender(cwd, arg)

PathSpec == PathInit /\ [][PathNext]_vars

\* makePeaks on every sample array and width.
PeakInit ==
    /\ PlayStart(0, 0)
    /\ IndexStart(0, 0, FALSE, FALSE)
    /\ CodecIdle
    /\ PathIdle
    /\ PeakStart
    /\ SparkIdle
    /\ DrawIdle
    /\ TempoIdle

PeakNext == MakePeaks

PeakSpec == PeakInit /\ [][PeakNext]_vars

\* The three sparkline routines on the same samples and width.
SparkInit ==
    /\ PlayStart(0, 0)
    /\ IndexStart(0, 0, FALSE, FALSE)
    /\ CodecIdle
    /\ PathIdle
    /\ PeakStart
    /\ SparkIdle
    /\ DrawIdle
    /\ TempoIdle

SparkNext == IndexSparkline \/ ListSparkline \/ RenderSparkline

SparkSpec == SparkInit /\ [][SparkNext]_vars

\* renderFull on a few samples, at every height up to MaxHeight.
PlotInit ==
    /\ PlayStart(0, 0)
    /\ IndexStart(0, 0, FALSE, FALSE)
    /\ CodecIdle
    /\ PathIdle
    /\ SparkIdle
    /\ DirIdle
    /\ ReuseIdle
    /\ TempoIdle
    /\ PlotStart

PlotNext == RenderFull

PlotSpec == PlotInit /\ [][PlotNext]_vars

\* renderDir on directories of up to MaxListed entries.
DirInit ==
    /\ PlayStart(0, 0)
    /\ IndexStart(0, 0, FALSE, FALSE)
    /\ CodecIdle
    /\ PathIdle
    /\ PeakIdle
    /\ SparkIdle
    /\ PlotIdle
    /\ ReuseIdle
    /\ TempoIdle
    /\ DirStart

DirNext == RenderDir

DirSpec == DirInit /\ [][DirNext]_vars

\* The commands that output the sparkline of a file, with a cache that may
\* hold one.
ReuseInit ==
    /\ PlayStart(0, 0)
    /\ IndexStart(0, 0, FALSE, FALSE)
    /\ CodecIdle
    /\ PathIdle
    /\ SparkIdle
    /\ PlotIdle
    /\ DirIdle
    /\ TempoIdle
    /\ ReuseStart

ReuseNext == ListShow \/ AwShow \/ AwDirShow

ReuseSpec == ReuseInit /\ [][ReuseNext]_vars

\* detectBPM on what aubiotrack may give.
TempoInit ==
    /\ PlayStart(0, 0)
    /\ IndexStart(0, 0, FALSE, FALSE)
    /\ CodecIdle
    /\ PathIdle
    /\ PeakIdle
    /\ SparkIdle
    /\ DrawIdle
    /\ TempoStart

TempoNext == DetectBPM

TempoSpec == TempoInit /\ [][TempoNext]_vars

\* ------------------------------------------------------------------- claims

\* C1: in every reachable state at most one controller, a process executing
\* play's monitoring loop, is alive.
AtMostOneController == Cardinality(Controllers) <= 1

\* C2: session preemption.  When play(B) was invoked while a session was
\* Active, with no other command in progress, and no command has been invoked
\* since, then once B's controller is in its loop the pid record holds B's
\* pid, the file record holds B's path and B is the only controller.
PreemptionLeavesB ==
    \A b \in Procs :
        (InLoop(b) /\ proc[b].active /\ Latest(b))
            => /\ pidFile = b
               /\ fileFile = PlayAbs(proc[b].arg)
               /\ Controllers = {b}

\* A stop command returns in this step.
StopReturns(p) ==
    /\ proc[p].cmd = "stop"
    /\ pc(p) = "sc_rm_pid"
    /\ proc'[p].pc = "gone"

NoSessionFiles == pidFile = NoPid /\ posFile = NoPos /\ fileFile = NoFile

\* C3: idempotent stop.  In whatever state stop was invoked, Idle, Starting or
\* Active, the pid, pos and file records are absent when it returns.
StopLeavesNoFiles ==
    [][\A p \in Procs : StopReturns(p) => NoSessionFiles']_vars

\* C4: natural end of playback.  Once its player process has exited, a
\* controller leaves the monitoring loop.
MpvLoopEnds ==
    \A p \in Procs : (InLoop(p) /\ mpv[p].st = "exit") ~> ~InLoop(p)

\* The controller p of the version that drives mpd returns from play in this
\* step and no other process exists.
LoneReturn(p) ==
    /\ pc(p) = "cl_reload"
    /\ proc'[p].pc = "gone"
    /\ \A q \in Procs \ {p} : ~Alive(q)

\* The version that drives mpd at the natural end: when the controller
\* returns, the pid, pos and file records are removed and the browser,
\* reloaded a last time, highlights no position.
NaturalEndClears ==
    [][\A p \in Procs : LoneReturn(p) => NoSessionFiles' /\ ~lfShown']_vars

\* The version that drives mpd at the natural end: once the player stays
\* stopped, the controllers leave their loops and the records are removed.
LoopEnds ==
    <>[](mpdState = "stop") => <>[](Controllers = {} /\ NoSessionFiles)

\* C5: from the moment a stop issued on an Active session returns, the pid,
\* pos and file records stay absent until the next play.
StoppedStaysIdle == quiet => NoSessionFiles

\* C6: the autoplay flag is independent of the session lifecycle.  A step
\* that creates or removes the autoplay file changes no process, session
\* record or player state, and the autoplay command is such a step; so no
\* step of play, pause, stop, seek, preemption or cleanup changes the flag.
AutoplayIndependent ==
    [][/\ autoplayFile' # autoplayFile
          => UNCHANGED <<proc, sessionFiles, mpdVars, lfShown>>
       /\ \A sub \in AutoplayArgs :
             MainAutoplay(sub) => UNCHANGED <<proc, sessionFiles, mpdVars>>
       /\ (proc' # proc \/ sessionFiles' # sessionFiles \/ mpdVars' # mpdVars)
          => autoplayFile' = autoplayFile]_vars

\* The flag is on after a stop on an Active session has removed the records.
AutoplayKeptWitness == autoplayFile /\ quiet /\ NoSessionFiles

\* What the autoplay command prints for a state of the flag.
OnOff(exists) == IF exists THEN "ON" ELSE "OFF"

\* C7: autoplay semantics.  After `on` the file exists and ON is reported,
\* after `off` it is absent and OFF is reported, toggle flips the state and a
\* second toggle restores it, on and off are idempotent, and a query reports
\* the state and leaves it unchanged.
AutoplaySemantics ==
    [][\A sub \in AutoplayArgs :
          MainAutoplay(sub) =>
            /\ AutoplayReport(sub, autoplayFile) = OnOff(autoplayFile')
            /\ sub = "on" => autoplayFile'
            /\ sub = "off" => ~autoplayFile'
            /\ sub = "toggle" =>
                  /\ autoplayFile' = ~autoplayFile
                  /\ AutoplayEffect("toggle", autoplayFile') = autoplayFile
            /\ sub \in {"on", "off"} =>
                  AutoplayEffect(sub, autoplayFile') = autoplayFile'
            /\ sub \notin {"on", "off", "toggle"} =>
                  autoplayFile' = autoplayFile]_vars

\* The flag was switched on, here during a session.
AutoplayOnWitness == autoplayFile /\ Controllers # {}

\* C8: a pause invoked on an Active session, with the player playing or
\* paused at its first query and at its second, goes on to send the toggle.
PauseToggles ==
    [][\A p \in Procs :
          (/\ pc(p) = "pz_paused"
           /\ proc[p].active
           /\ SessionActive
           /\ proc'[p] # proc[p]) => proc'[p].pc = "pz_toggle"]_vars

BoundedIndexing == Cardinality(Indexing) <= 4

\* Four calls are in progress and a fifth worker waits for a token.
PoolFullWitness ==
    /\ Cardinality(Indexing) = PoolSize
    /\ \E f \in Names : worker[f] = "acquire"

\* The audio files of the directory: the entries that are no directory and
\* whose extension is, whatever its case, one of the recognized ones.
AudioEntries ==
    {e \in entries : e # SubDir /\ \E x \in audioExt : ToLower(Ext(e)) = x}

\* The cache file the run found has a record for the name.
WasCached(e) == \E i \in 1..Len(before) : before[i].File = e

\* main has made its selection.
Selecting == mainPc \in {"spawn", "collect", "write", "done"} /\ fault # "readdir"

\* C11: selection policy.  The files selected are, in incremental mode, the
\* audio files of the directory whose name the existing cache has no record
\* for and, in force mode, all audio files of the directory; a directory or
\* a file without a recognized extension is never selected.
SelectionPolicy ==
    Selecting =>
        /\ toIndex = InOrder({e \in AudioEntries : force \/ ~WasCached(e)}, 1)
        /\ \A i \in 1..Len(toIndex) : toIndex[i] \notin {SubDir, TextFile}

\* An incremental run that selects some files, one with an upper-case
\* extension among them, and leaves out a cached one.
SelectionWitness ==
    /\ mainPc = "spawn"
    /\ ~force
    /\ \E i \in 1..Len(toIndex) : Ext(toIndex[i]) = ".WAV"
    /\ \E f \in files : WasCached(f)

\* The names of the records of the cache file, in the order of the file.
CacheNames == [i \in 1..Len(cache) |-> cache[i].File]

\* The run has rewritten the cache: writeCache has written every record.
Rewritten == mainPc = "done" /\ toIndex # <<>> /\ fault = "none"

\* C12: a rewritten cache holds exactly one record per audio file of the
\* directory, in the order of the directory listing, and so none for a name
\* that the old cache had and the directory has not.
RewrittenCache == Rewritten => CacheNames = InOrder(AudioEntries, 1)

\* An incremental run has rewritten a cache that had a record for a deleted
\* file and lacked records for files of the directory.
RewrittenWitness ==
    /\ Rewritten
    /\ ~force
    /\ WasCached(Deleted)
    /\ Len(cache) > 1

\* Every selected extraction is over and its result is merged: the workers
\* have exited, results is closed and empty, and the map holds the Meta
\* computed by this run for every selected file.
AllMerged ==
    /\ closed
    /\ results = <<>>
    /\ \A i \in 1..Len(toIndex) :
          /\ worker[toIndex[i]] = "exit"
          /\ existing[toIndex[i]] = indexFile(toIndex[i], {})

\* C13: all-or-nothing persistence.  A step changes the cache file only
\* when every selected extraction is over and merged, and an interruption
\* before the write leaves the cache file as the run found it.
AllOrNothing ==
    [][/\ cache' # cache => mainPc \in {"collect", "write"} /\ AllMerged
       /\ (mainPc' = "killed" /\ mainPc \notin {"write", "killed"})
          => cache' = before]_vars

\* A run with an old cache was interrupted before it wrote.
InterruptedWitness ==
    /\ mainPc = "killed"
    /\ all = <<>>
    /\ force
    /\ before # <<>>
    /\ cache = before

\* C14: the write-back is atomic: whenever the cache file is read, or the
\* run interrupted, the file holds the complete old cache or the complete
\* new one.
AtomicWriteBack == cache = before \/ cache = all

\* The fields that belong to each tool.
ToolFields(tool) ==
    CASE tool = "soxi" -> {"Duration", "Channels", "Rate", "Bits"}
      [] tool = "aubiotrack" -> {"BPM"}
      [] tool = "aubiopitch" -> {"Pitch"}
      [] OTHER -> {"Spark"}

\* C18: degraded features.  When tools fail on a file, the Meta sent for
\* the file has the fields of the failed tools empty and all other fields
\* computed; a Meta is sent all the same, and a run that ends without an
\* I/O failure has written a record for every audio file and exits 0.
DegradedFeatures ==
    [][/\ \A f \in Names : \A failed \in SUBSET Tools :
             (worker[f] = "index" /\ worker'[f] = "release"
              /\ results' = Append(results, indexFile(f, failed)))
             => \A tool \in Tools : \A field \in ToolFields(tool) :
                   (indexFile(f, failed)[field] = "") <=> (tool \in failed)
       /\ \A f \in Names :
             (worker[f] = "index" /\ worker'[f] # "index" /\ mainPc' # "killed")
             => Len(results') = Len(results) + 1
       /\ (mainPc' = "done" /\ mainPc = "write" /\ fault' = "none")
          => exitCode' = 0 /\ Len(cache') = Cardinality(files)]_vars

\* C19: exit status.  The run exits 1 when reading the directory or writing
\* the cache has failed, at any step, and exits 0 otherwise.
ExitStatus ==
    mainPc = "done" =>
        /\ fault = "none" => exitCode = 0
        /\ fault # "none" => exitCode = 1

\* C15: tolerant decoding.  From a cache file whose lines have 3, 7 or 8
\* fields, readCache loads every line of 7 or 8 fields, a line of 7 with an
\* empty sparkline, and skips the lines of 3.
TolerantDecoding ==
    (codecPc = "done" /\ lines # <<>>) =>
        loaded = {MetaOf(LineFields(lines[i], i)) :
                     i \in {j \in 1..Len(lines) : lines[j] # "short"}}

\* C16: cache round trip.  readCache of what writeCache wrote for Meta with
\* names that differ and fields without separator and line end gives a map
\* with these names and, for each, the same value in every field: an empty
\* field is read as empty.
RoundTrip ==
    (codecPc = "done" /\ lines = <<>>) =>
        /\ loaded = {metas[i] : i \in 1..Len(metas)}
        /\ \A i \in 1..Len(metas) : \E m \in loaded :
              /\ m.File = metas[i].File
              /\ \A k \in 1..SparkField :
                    /\ MetaFields(m)[k] = MetaFields(metas[i])[k]
                    /\ MetaFields(metas[i])[k] = <<>> => MetaFields(m)[k] # <<"0">>

\* Two Meta were written and read, with an empty field, a quote in a name
\* and a leading space in a field.
RoundTripWitness ==
    /\ codecPc = "done"
    /\ Len(metas) = MaxRecords
    /\ metas[1].File = <<"k", Quote, "k">>
    /\ metas[1].BPM = <<>>
    /\ metas[2].Pitch = <<Space, "0">>
    /\ Cardinality(loaded) = MaxRecords

\* The cache file that a command run on a directory should address holds
\* records of it.
Indexed(dir) == \E k \in CacheFiles : \E r \in store[k] : r.dir = dir

\* C17: cache addressing and isolation.  No cache file holds records of two
\* directories, and a reading command run on a directory that was indexed
\* finds the records of that directory, whatever the working directories
\* and the spellings of the argument were.
CacheAddressing ==
    /\ \A k \in CacheFiles : \A r1, r2 \in store[k] : r1.dir = r2.dir
    /\ (listed.dir # "none" /\ Indexed(listed.dir)) =>
          /\ listed.found # {}
          /\ \A r \in listed.found : r.dir = listed.dir

\* C20: peak bucketing shape.  For N > 0 samples and W > 0 columns there
\* are W peaks; column i covers [i*N/W, (i+1)*N/W), so the ranges are
\* contiguous and disjoint and cover [0, N); a column with an empty range
\* has the peak 0.
BucketShape ==
    LET n == Len(samples) IN
    (peaks # NoPeaks /\ n > 0) =>
        /\ Len(peaks) = width
        /\ BucketStart(0, n, width) = 0
        /\ BucketEnd(width - 1, n, width) = n
        /\ \A i \in 0..(width - 1) :
              /\ BucketStart(i, n, width) = (i * n) \div width
              /\ BucketStart(i, n, width) <= BucketEnd(i, n, width)
              /\ i < width - 1 =>
                    BucketEnd(i, n, width) = BucketStart(i + 1, n, width)
              /\ BucketStart(i, n, width) = BucketEnd(i, n, width)
                    => peaks[i + 1] = 0
              /\ peaks[i + 1] =
                    MaxOver(samples, (i * n) \div width,
                            ((i + 1) * n) \div width, 0)

\* More columns than samples: a column is empty, the next holds a sample.
BucketWitness ==
    /\ peaks # NoPeaks
    /\ Len(samples) = MaxSamples
    /\ width = MaxWidth
    /\ \E i \in 1..(width - 1) : peaks[i] = 0 /\ peaks[i + 1] > 0


\* The magnitude of a sample.
Magnitude(v) == IF v < 0 THEN -v ELSE v

\* C21: each bucket's value is the greatest magnitude of the samples in its
\* range, for every 16-bit sample value, the lowest one included: it is never
\* negative, never smaller than the magnitude of a sample of the bucket, and
\* it is the magnitude of one of them.
PeakMagnitude ==
    LET n == Len(samples) IN
    (peaks # NoPeaks /\ n > 0) =>
        \A i \in 0..(width - 1) :
            LET range == (BucketStart(i, n, width) + 1)..BucketEnd(i, n, width)
            IN  /\ peaks[i + 1] >= 0
                /\ \A k \in range : peaks[i + 1] >= Magnitude(samples[k])
                /\ range # {} =>
                      \E k \in range : peaks[i + 1] = Magnitude(samples[k])


\* The greatest sample magnitude in column i, from 0, of `width` columns over
\* the samples, 0 when the column is empty.
TruePeak(i) ==
    LET n == Len(samples)
        range == (BucketStart(i, n, width) + 1)..BucketEnd(i, n, width)
        mags == {Magnitude(samples[k]) : k \in range} \cup {0}
    IN  CHOOSE m \in mags : \A x \in mags : x <= m

\* The greatest of the peaks of all columns.
TrueMax ==
    LET tops == {TruePeak(i) : i \in 0..(width - 1)}
    IN  CHOOSE m \in tops : \A x \in tops : x <= m

\* A sparkline of `width` glyphs, each at level floor(peak / maxPeak * 7) of
\* its column, the lowest glyph everywhere when no sample is above 0.
RightSparkline(spark) ==
    /\ Len(spark) = width
    /\ \A i \in 1..width :
          /\ spark[i] \in 0..(Levels - 1)
          /\ spark[i] = IF TrueMax = 0 THEN 0
                        ELSE ((Levels - 1) * TruePeak(i - 1)) \div TrueMax
          /\ (TrueMax > 0 /\ TruePeak(i - 1) = TrueMax) => spark[i] = Levels - 1

\* C22: sparkline rendering.  For any samples and any width W > 0 the
\* sparkline of the renderer and of the list command has W glyphs, each at
\* level floor(peak / maxPeak * 7) within 0..7, the full block for a column
\* that holds the greatest peak; samples that are all 0, or no sample at all,
\* give the lowest glyph W times.
SparklineLevels ==
    /\ sparkRender # NoSpark => RightSparkline(sparkRender)
    /\ sparkList # NoSpark => RightSparkline(sparkList)

\* C27: render/index equivalence.  For every sample buffer and every width
\* W > 0 the sparklines of alf-index's miniSparkline, of alf-list's
\* miniSparkline and of aw's renderSparkline are the same, glyph for glyph.
SparklinesAgree ==
    /\ (sparkIndex # NoSpark /\ sparkList # NoSpark) => sparkIndex = sparkList
    /\ (sparkIndex # NoSpark /\ sparkRender # NoSpark) =>
          sparkIndex = sparkRender

\* The three routines have run on three samples, one of them the lowest
\* value, at the greatest width, and the sparkline has three levels.
SparklinesWitness ==
    /\ sparkIndex # NoSpark /\ sparkList # NoSpark /\ sparkRender # NoSpark
    /\ Len(samples) = MaxSamples
    /\ width = MaxWidth
    /\ \E i \in 1..MaxSamples : samples[i] = -32768
    /\ Cardinality({sparkRender[i] : i \in 1..width}) >= 3


\* The cell of row r for a column of peak p, when the greatest peak is mx
\* and the level is p / mx * h (0 when no sample is above 0).
LevelCell(p, mx, h, r) ==
    IF mx > 0 /\ p * h >= (r + 1) * mx THEN "full"
    ELSE IF mx > 0 /\ p * h > r * mx THEN "ramp"
    ELSE IF r = 0 THEN "base"
    ELSE "blank"

\* What is written of a row without its emphasis markers, and its cells.
Unmarked(chunk) == SelectSeq(chunk, LAMBDA t : t \notin {DIM, BRIGHT, RST})
Cells(chunk) ==
    SelectSeq(chunk, LAMBDA t : t \in {"full", "ramp", "base", "blank"})

\* C23: multi-row plot.  For width W and height H the plot has H rows of W
\* cells, the row H-1 first and the row 0 last, with a line end after every
\* row but the last; with level = peak / maxPeak * H, the cell of a column in
\* row r is the full block iff level >= r+1, a glyph of the ramp iff
\* r < level < r+1, and else a space, but the lowest glyph in row 0.
FullPlot ==
    (plot # NoPlot /\ Len(samples) > 0) =>
        LET peak == [i \in 1..width |-> TruePeak(i - 1)]
            maxPeak == TrueMax
        IN  /\ Len(plot) = height + 1
            /\ \A r \in 0..(height - 1) :
                  LET chunk == plot[1 + height - r]
                      cells == Cells(chunk)
                  IN  /\ Len(cells) = width
                      /\ r > 0 => chunk[Len(chunk)] = Nl
                      /\ r = 0 => \A k \in 1..Len(chunk) : chunk[k] # Nl
                      /\ \A i \in 1..width :
                            cells[i] = LevelCell(peak[i], maxPeak, height, r)

\* C24: position highlighting.  For a position p in [0, 1] and width W, with
\* split = floor(p * W), every row is written as the dim marker, the cells of
\* the columns before the split, the bright marker, the cells of the columns
\* from the split on and the reset marker (the dim marker, all cells and the
\* reset marker when split = W); without the markers it is the row that is
\* written when no position is given.
HighlightSplit ==
    (plot # NoPlot /\ Len(samples) > 0 /\ posArg >= 0) =>
        LET split == (posArg * width) \div PosDen
            plain == renderFull(samples, width, height, NoPosArg)
        IN  \A r \in 1..height :
                LET cols == Cells(plain[r + 1])
                    end == IF r < height THEN <<Nl>> ELSE <<>>
                IN  /\ Unmarked(plot[r + 1]) = plain[r + 1]
                    /\ plot[r + 1] =
                          (IF split < width
                           THEN <<DIM>> \o SubSeq(cols, 1, split) \o <<BRIGHT>>
                                    \o SubSeq(cols, split + 1, width) \o <<RST>>
                           ELSE <<DIM>> \o cols \o <<RST>>) \o end


\* The names of the audio files of the listed directory.
AudioNames ==
    {dirEntries[k].name : k \in {i \in 1..Len(dirEntries) :
        ~dirEntries[i].dir /\ ToLower(dirEntries[i].ext) \in audioExt}}

\* The name column of a file: its name, cut to the budget or padded to it.
NameColumn(name, budget) ==
    IF Len(name) > budget THEN SubSeq(name, 1, budget)
    ELSE name \o [j \in 1..(budget - Len(name)) |-> ByteSpace]

\* C25: directory listing.  The audio files are listed in ascending order of
\* their names, byte by byte; the sparkline of a file is (width - 40) glyphs
\* wide, but at least 16 and at most 30; a name longer than the budget of the
\* name column is cut to the budget and a shorter one is padded to it; at
\* most maxfiles files have a line, and exactly when there are more, a last
\* line tells N = count - maxfiles more.
DirectoryListing ==
    (listing # NoListing /\ AudioNames # {}) =>
        LET count == Cardinality(AudioNames)
            nshown == IF count > MaxFilesShown THEN MaxFilesShown ELSE count
            budget == termWidth - SparkWidth(termWidth) - OtherCols
            sorted == [i \in 1..count |->
                          CHOOSE x \in AudioNames :
                              Cardinality({y \in AudioNames : BytesLess(y, x)})
                                  = i - 1]
        IN  /\ listing # Panic
            /\ Len(listing) = nshown + (IF count > MaxFilesShown THEN 1 ELSE 0)
            /\ \A i \in 1..nshown :
                  /\ Len(listing[i].name) = budget
                  /\ listing[i].name = NameColumn(sorted[i], budget)
                  /\ listing[i].spark = SparkWidth(termWidth)
                  /\ listing[i].spark \in SparkMin..SparkMax
                  /\ termWidth - SparkOff \in SparkMin..SparkMax =>
                        listing[i].spark = termWidth - SparkOff
            /\ count > MaxFilesShown =>
                  listing[nshown + 1] = [more |-> count - MaxFilesShown]


\* C26: cached-sparkline reuse.  Every command that outputs a sparkline
\* outputs the stored one, as it is, if and only if the cache holds one whose
\* number of glyphs is the width asked for, and otherwise the one computed
\* from the samples; a stored sparkline of another width is never output.
CachedReuse ==
    shown # NoSpark =>
        shown = IF stored # <<>> /\ Len(stored) = width THEN stored
                ELSE renderSparkline(samples, width)


\* The timestamps that parse, in the order of the output.
ParsedBeats == SelectSeq(trackOut.lines, LAMBDA l : l # Junk)

\* The number a sequence of decimal digits writes.
RECURSIVE Value(_)
Value(ds) ==
    IF Len(ds) = 1 THEN ds[1]
    ELSE 10 * Value(SubSeq(ds, 1, Len(ds) - 1)) + ds[Len(ds)]

\* C28: tempo.  With k timestamps b1..bk parsed, the BPM field is empty when
\* k < 2 or (bk - b1)/(k - 1) <= 0, and is otherwise an integer nearest to
\* 60 / ((bk - b1)/(k - 1)); beats at 1.0, 1.5, 2.0, 2.5 s give 120, and a
\* missing tempo is never written "0".
Tempo ==
    (bpm # NoBpm /\ trackOut.ok) =>
        LET k == Len(ParsedBeats)
            span == ParsedBeats[k] - ParsedBeats[1]
        IN  /\ IF k < 2 \/ span <= 0 THEN bpm = <<>>
               ELSE /\ bpm # <<>>
                    /\ \A i \in 1..Len(bpm) : bpm[i] \in 0..9
                    /\ Len(bpm) > 1 => bpm[1] # 0
                    /\ 2 * Value(bpm) * span <= (2 * 60 * PerSecond * (k - 1)) + span
                    /\ 2 * Value(bpm) * span >= (2 * 60 * PerSecond * (k - 1)) - span
            /\ ParsedBeats = <<4, 6, 8, 10>> => bpm = <<1, 2, 0>>
            /\ (k = 1) => bpm = <<>>

\* detectBPM has returned a tempo that %.0f has rounded up.
TempoWitness ==
    /\ trackOut = [ok |-> TRUE, lines |-> <<6, 8, 10, 32>>]
    /\ bpm = <<2, 8>>


\* How many results of the file the channel holds.
InFlight(f) == Cardinality({i \in 1..Len(results) : results[i].File = f})

\* The collector has stored the result of this run for the file.
Received(f) == existing[f] = indexFile(f, {})

\* The selected files, and those whose goroutine has been started.
SelectedFiles == {toIndex[i] : i \in 1..Len(toIndex)}
Started == {toIndex[i] : i \in 1..spawned}

\* The run is over: main has returned or the process was killed.
RunOver == mainPc \in {"done", "killed"}

\* What holds at every moment of a run.
RunOrder ==
    /\ Cardinality(SelectedFiles) = Len(toIndex)
    /\ \A f \in Names :
          /\ worker[f] # "none" <=> f \in Started
          /\ IF worker[f] \in {"none", "acquire", "index"}
             THEN InFlight(f) = 0 /\ (f \in SelectedFiles => ~Received(f))
             ELSE InFlight(f) + (IF Received(f) THEN 1 ELSE 0) = 1
    /\ closed => \A f \in SelectedFiles : worker[f] = "exit"
    /\ (mainPc = "write" \/ (mainPc = "done" /\ toIndex # <<>>)) =>
          /\ closed
          /\ results = <<>>
          /\ \A f \in SelectedFiles : Received(f)
    /\ (cache # before /\ mainPc # "killed") => closed
    /\ ~RunOver => ENABLED GoStep

\* C29: the index run terminates without deadlock for any number of selected
\* files, more than the pool holds included: every selected file is
\* extracted exactly once and its result received by the collector, the
\* results channel is closed only after every worker has finished, the cache
\* is written only after that, and the run comes to its end.
IndexRunEnds == []RunOrder /\ <>RunOver

\* A run over more files than the pool holds has written all their results.
IndexRunWitness ==
    /\ mainPc = "done"
    /\ exitCode = 0
    /\ fault = "none"
    /\ Len(toIndex) > PoolSize
    /\ Len(cache) = Len(toIndex)
    /\ \A f \in SelectedFiles : Received(f) /\ worker[f] = "exit"


\* The absolute path without symbolic links of a FILE argument given in the
\* working directory /m, where l.wav is a symbolic link to b.wav.
CanonicalPath(path) == IF path \in {"b.wav", "l.wav"} THEN "/m/b.wav" ELSE path

\* C30: the file record of the session always holds the absolute, canonical
\* path of the file being played, whether the argument of play is absolute,
\* relative to the working directory or a symbolic link; a relative or
\* unresolved path is never written to it.
FileRecordAbsolute ==
    fileFile # NoFile =>
        \E a \in PathArgs \cup MpvPathArgs : fileFile = CanonicalPath(a)


\* C36: the directory listing completes without a runtime failure for every
\* terminal width of 1 and more and every set of audio file names: the
\* budget of the name column is never a negative slice bound, the widths
\* below 32 included.
ListingCompletes == (listing # NoListing /\ termWidth >= 1) => listing # Panic


\* The run has nothing to select: the directory holds no audio file, or the
\* run is incremental and the cache has a record for every audio file.
NoneToSelect ==
    \/ AudioEntries = {}
    \/ ~force /\ \A e \in AudioEntries : WasCached(e)

\* C35: a run that selects no file, or finds no audio file, exits 0 without
\* opening the cache for writing: the cache file is as the run found it,
\* the records of deleted files included.
NothingSelected ==
    NoneToSelect =>
        /\ mainPc \in {"select", "done", "killed"}
        /\ cache = before
        /\ all = <<>>
        /\ fault \in {"none", "readdir"}
        /\ (mainPc = "done" /\ fault = "none") => exitCode = 0

\* An incremental run over a directory whose files are all cached has
\* returned, and the record of the deleted file is still in the cache.
NothingSelectedWitness ==
    /\ NoneToSelect
    /\ AudioEntries # {}
    /\ mainPc = "done"
    /\ exitCode = 0
    /\ \E i \in 1..Len(cache) : cache[i].File = Deleted


\* The fields of a record that the external tools give.
DerivedFields == UNION {ToolFields(tool) : tool \in Tools}

\* The cache file the run found holds, for the name, the record of an
\* extraction in which every tool failed.
FailedBefore(f) == \E i \in 1..Len(before) : before[i] = indexFile(f, Tools)

\* C34: a file on which every external tool failed is stored all the same,
\* as a record whose derived fields are all empty; a later incremental run
\* finds its name in the cache and never selects it again, and a force run
\* does select it.
FailedFileStays ==
    [][/\ \A f \in Names :
             (worker[f] = "index" /\ worker'[f] = "release"
              /\ results' = Append(results, indexFile(f, Tools)))
             => \A field \in DerivedFields : indexFile(f, Tools)[field] = ""
       /\ \A f \in AudioEntries :
             (FailedBefore(f) /\ mainPc = "select" /\ mainPc' # "select"
              /\ mainPc' # "killed" /\ fault' = "none")
             => ((\E i \in 1..Len(toIndex') : toIndex'[i] = f) <=> force)
       /\ \A f \in Names :
             (mainPc = "write" /\ mainPc' = "done" /\ fault' = "none"
              /\ f \in SelectedFiles /\ existing[f] = indexFile(f, Tools))
             => \E i \in 1..Len(cache') : cache'[i] = existing[f]]_vars


\* The record the cache file holds for a name.
RecordIn(disk, f) == disk[CHOOSE i \in 1..Len(disk) : disk[i].File = f]

\* C33: an incremental run leaves the record of every file that was in the
\* cache unchanged in every field, the sparkline included: the rewritten
\* cache adds records of the selected files only and loses no stored
\* sparkline of a file that was not selected.
CachedRecordsKept ==
    (Rewritten /\ ~force) =>
        \A f \in AudioEntries :
            WasCached(f) =>
                /\ \E i \in 1..Len(cache) : cache[i].File = f
                /\ RecordIn(cache, f) = RecordIn(before, f)


\* C32: when the launch of the player fails inside play, the controller
\* returns at once, after it has written the pid and file records, without
\* removing them and without a refresh: the session has no player, and
\* when no other command was invoked the session files stay although no
\* controller and no player is alive.
StartFailureLeaves ==
    [][\A p \in Procs :
          (pc(p) = "v_start" /\ proc'[p] = Gone) =>
              /\ sessionFiles' = sessionFiles
              /\ lfShown' = lfShown
              /\ mpv'[p].st = "none"
              /\ (\A q \in Procs \ {p} : pc(q) = "idle") =>
                    /\ pidFile' = p
                    /\ fileFile' = MpvPlayAbs(proc[p].arg)
                    /\ posFile' = NoPos
                    /\ \A q \in Procs : proc'[q].pc \in {"idle", "gone"}]_vars

\* play has returned from a failed launch: its pid and file records are
\* there, and no process and no player is alive.
StartFailureWitness ==
    /\ proc[1] = Gone
    /\ pidFile = 1
    /\ fileFile = "b.wav"
    /\ posFile = NoPos
    /\ \A q \in Procs : ~Alive(q) /\ mpv[q].st = "none"


\* C31: the session files are consistent for a consumer that polls them:
\* in every state, under any interleaving of a running controller with stop
\* and play, when the pos record is present the file and pid records are
\* present too, and the position was written by the controller whose pid
\* the pid record holds.
SessionConsistent ==
    posFile # NoPos =>
        /\ fileFile # NoFile
        /\ pidFile # NoPid
        /\ posBy = pidFile

====
